---- MODULE Spec2Model ----
(***************************************************************************)
(* Hierarchical federated-learning pipeline of fedshareM3:                 *)
(*   facility (hierfedclient.py) -> validator committee (hiervalidator.py) *)
(*   -> fog node (hierfognode.py) -> leader (hierleadserver.py)            *)
(*   -> trusted authority (hierta.py).                                     *)
(*                                                                         *)
(* Every HTTP handler is an operator from the state of the servers to the  *)
(* state after the handler returned; a synchronous requests.post runs the  *)
(* receiving handler inside the sending one.  The threads the handlers     *)
(* start (threading.Thread) are separate actions.                          *)
(***************************************************************************)
EXTENDS Integers, Sequences, FiniteSets, TLC

\* ------------------------------------------------------------ configuration
number_of_facilities == 4
num_fog_nodes == 3
committee_size == 3
consensus_threshold == 2
max_byzantine_nodes == 1
\* HierConfig.hier_training_rounds
hier_training_rounds == 3
secret_threshold == 2
\* 10 * 1024 * 1024, the size limit of cast_vote
FragmentLimit == 10485760

\* HierConfig.secret_num_shares_computed: secret_num_shares is None
secret_num_shares_computed == num_fog_nodes

\* ------------------------------------------------------------------ bounds
\* rounds one facility may be started for
MaxRounds == 2
\* requests an arbitrary client posts to the committee
MaxClientPosts == 4
\* shares a client of the plain payload format posts
MaxPlainPosts == 9
\* vote messages the Byzantine validator posts
MaxByzPosts == 2
\* requests posted to /distribute_global_model
MaxDistributions == 2
\* batches of float-array shares a client posts, one facility per batch
MaxPlainBatches == 4

\* requests with chosen share_id, size and signature
MaxCheckedPosts == 2
\* the largest threshold k of a ShamirSecretSharing object
\* partials the fog nodes send to the leader
MaxPartialPosts == 4

\* requests a client posts to /receive_share of a fog node
MaxFogPosts == 3

MaxGlobalModels == 5
MaxTARequests == 3
MaxThreshold == 3

Facilities == 0 .. (number_of_facilities - 1)
Validators == 0 .. (committee_size - 1)
Fogs == 0 .. (num_fog_nodes - 1)

VARIABLES
    \* hiervalidator.py, one copy per validator process
    vote_records,        \* [validator -> dict share_uid -> dict voter -> vote]
    validated_shares,    \* [validator -> the list as a bag: share_uid -> copies]
    \* hierfognode.py, one copy per fog node process
    shares_by_facility,  \* [fog -> dict facility_id -> list of shares]
    received_shares,     \* [fog -> len(received_shares)]
    fog_training_round,  \* [fog -> training_round]
    fog_threads,         \* [fog -> process_aggregation threads by position]
    \* hierleadserver.py
    fog_aggregations,    \* list of partials
    leader_training_round,
    leader_threads,      \* process_global_aggregation threads by position
    \* hierta.py
    registered_facilities, \* dict facility_id -> record
    issued_keys,           \* set of facility ids holding a key
    \* hierfedclient.py, one copy per facility process
    facility_training_round, \* [facility -> training_round]
    facility_threads,        \* [facility -> start_next_round threads not yet run]
    \* the network
    down,                \* validators that drop every message
    byzantine,           \* validators that do not run the validator code
    \* history
    fwdCount,            \* [share_uid -> POSTs to /receive_share answered 200]
    forwards,            \* the forwards made, with the ledger at that moment
    reconstructions,     \* what reconstruct_secret_shares was run on
    models,              \* the global models global_aggregation returned
    modelCount,          \* [round -> number of global models produced]
    delivered,           \* facilities whose /receive_global_model the TA called
    distribution,        \* the last /distribute_global_model request handled
    posted,              \* requests posted by clients that are no facility
    seen,                \* [signed share -> times posted to /validate_share]
    \* threads between the load and the store of "training_round += 1"
    loaded,              \* per process, [value loaded -> number of threads]
    registration,  \* the last /register_facility request handled, and its answer
    averaging,  \* weight vectors on their way through fedavg_aggregation and global_aggregation
    cast_votes,  \* verdict cast by a validator in a handler -> how often
    vote_messages,  \* vote_message posted to /receive_vote of a peer -> how often
    facility_sent,  \* facility -> threads of start_next_round between the loop over the shares and line 219
    aggregated,  \* [arrival number of an accepted partial -> global aggregations it was summed in]
    accepted,  \* partials receive_fog_aggregation has appended to fog_aggregations
    ta_handlers,  \* the requests to the trusted authority whose handlers have begun and not returned
    \* shamir_secret_sharing.py
    sss                  \* a ShamirSecretSharing object and what was done with it

vars == << vote_records, validated_shares, shares_by_facility, received_shares,
           fog_training_round, fog_threads, fog_aggregations,
           leader_training_round, leader_threads, registered_facilities,
           issued_keys, facility_training_round, facility_threads, down, byzantine,
           fwdCount, forwards, reconstructions, models, modelCount, delivered,
           distribution, posted, seen, loaded, registration, averaging, cast_votes, vote_messages, facility_sent, aggregated, accepted, ta_handlers, sss >>

\* ------------------------------------------------------------ Python dicts
EmptyDict == [k \in {} |-> 0]
Put(d, k, x) == [y \in (DOMAIN d) \cup {k} |-> IF y = k THEN x ELSE d[y]]
Del(d, k) == [y \in (DOMAIN d) \ {k} |-> d[y]]
Get(d, k, dflt) == IF k \in DOMAIN d THEN d[k] ELSE dflt

\* ------------------------------------------------------ ShamirSecretSharing
\* the field GF(2^8) that the docstring of the module names
field_of_docstring == 2 ^ 8

\* self.prime
prime == 257
\* "raise ValueError" where a number is returned otherwise
ValueError == -1

\* extended_gcd(a, b): <<gcd, x, y>>
RECURSIVE extended_gcd(_, _)
extended_gcd(a, b) ==
    IF a = 0 THEN <<b, 0, 1>>
    ELSE LET r == extended_gcd(b % a, a)
         IN <<r[1], r[3] - (b \div a) * r[2], r[2]>>

mod_inverse(a) ==
    LET r == extended_gcd(a % prime, prime)
    IN IF r[1] # 1 THEN ValueError ELSE ((r[2] % prime) + prime) % prime

\* Horner's method over reversed(coefficients)
RECURSIVE polynomial_eval(_, _)
polynomial_eval(coefficients, x) ==
    IF coefficients = <<>> THEN 0
    ELSE (polynomial_eval(Tail(coefficients), x) * x + Head(coefficients))
             % prime

\* the inner loop of _lagrange_interpolation for share i, from share j on:
\* <<numerator, denominator>>
RECURSIVE LagrangeTerms(_, _, _, _, _)
LagrangeTerms(shares, i, j, numerator, denominator) ==
    IF j > Len(shares) THEN <<numerator, denominator>>
    ELSE IF i = j
         THEN LagrangeTerms(shares, i, j + 1, numerator, denominator)
         ELSE LagrangeTerms(shares, i, j + 1,
                  (numerator * (0 - shares[j][1])) % prime,
                  (denominator * (shares[i][1] - shares[j][1])) % prime)

\* the outer loop of _lagrange_interpolation from share i on
RECURSIVE LagrangeSum(_, _, _)
LagrangeSum(shares, i, result) ==
    IF i > Len(shares) THEN result % prime
    ELSE LET nd == LagrangeTerms(shares, i, 1, 1, 1)
             denominator_inv == mod_inverse(nd[2])
             lagrange_basis == (nd[1] * denominator_inv) % prime
         IN IF denominator_inv = ValueError THEN ValueError
            ELSE LagrangeSum(shares, i + 1,
                     (result + shares[i][2] * lagrange_basis) % prime)

\* _lagrange_interpolation(shares, x=0)
lagrange_interpolation(threshold, shares) ==
    IF Len(shares) < threshold THEN ValueError
    ELSE LagrangeSum(SubSeq(shares, 1, threshold), 1, 0)

\* split_secret; coefficients[b] are the random coefficients drawn for byte b
split_secret(threshold, num_shares, secret_bytes, coefficients) ==
    [i \in 1 .. num_shares |->
        [b \in 1 .. Len(secret_bytes) |->
            <<i, polynomial_eval(<<secret_bytes[b]>> \o coefficients[b], i)>>]]

\* the points of the shares that have a byte byte_idx
RECURSIVE ByteShares(_, _)
ByteShares(shares_subset, byte_idx) ==
    IF shares_subset = <<>> THEN <<>>
    ELSE LET rest == ByteShares(Tail(shares_subset), byte_idx)
         IN IF byte_idx <= Len(Head(shares_subset))
            THEN <<Head(shares_subset)[byte_idx]>> \o rest
            ELSE rest

\* the loop of reconstruct_secret from byte byte_idx on; bytearray.append
\* raises ValueError on a value that is no byte
RECURSIVE ReconstructBytes(_, _, _, _, _)
ReconstructBytes(threshold, shares_subset, byte_idx, secret_length, secret_bytes) ==
    IF byte_idx > secret_length
    THEN [raised |-> FALSE, bytes |-> secret_bytes]
    ELSE LET byte_shares == ByteShares(shares_subset, byte_idx)
             reconstructed_byte == lagrange_interpolation(threshold, byte_shares)
         IN IF Len(byte_shares) < threshold
            THEN ReconstructBytes(threshold, shares_subset, byte_idx + 1,
                                  secret_length, secret_bytes)
            ELSE IF reconstructed_byte = ValueError \/ reconstructed_byte > 255
                 THEN [raised |-> TRUE, bytes |-> <<>>]
                 ELSE ReconstructBytes(threshold, shares_subset, byte_idx + 1,
                          secret_length, Append(secret_bytes, reconstructed_byte))

\* a reconstruct_secret without the check of the number of shares
reconstruct_secret_unchecked(threshold, shares_subset) ==
    IF shares_subset = <<>> THEN [raised |-> TRUE, bytes |-> <<>>]
    ELSE ReconstructBytes(threshold, shares_subset, 1,
                          Len(shares_subset[1]), <<>>)

\* reconstruct_secret
reconstruct_secret(threshold, shares_subset) ==
    IF Len(shares_subset) < threshold
    THEN [raised |-> TRUE, bytes |-> <<>>]
    ELSE ReconstructBytes(threshold, shares_subset, 1,
                          Len(shares_subset[1]), <<>>)

\* shamirs_secret_sharing for data up to 64 KB: share i formatted, the
\* fragment being base64 of the pickle of the raw share
FormattedShare(i, raw_share, threshold, num_shares) ==
    [share_id |-> i, data_fragment |-> <<"base64", "pickle", raw_share>>,
     threshold |-> threshold, total_shares |-> num_shares,
     is_real_sss |-> TRUE]

\* pickle.loads(base64.b64decode(data_fragment))
DecodeFragment(data_fragment) == data_fragment[3]

\* the raw shares reconstruct_secret_shares collects from the shares of one
\* facility, in the order of the dict
RECURSIVE RawShares(_)
RawShares(facility_shares) ==
    IF facility_shares = <<>> THEN <<>>
    ELSE IF ~Head(facility_shares).is_real_sss THEN RawShares(Tail(facility_shares))
    ELSE <<DecodeFragment(Head(facility_shares).data_fragment)>>
             \o RawShares(Tail(facility_shares))

\* shamir_secret_sharing.reconstruct_secret_shares: the facilities that get a
\* model, with the bytes pickle.loads is given; a facility is left out when
\* it has no share (the comparison with None raises), too few shares, when
\* reconstruct_secret raises, or when pickle.loads has nothing to load
sss_reconstruct_secret_shares(by_facility) ==
    LET raw(f) == RawShares(by_facility[f])
        rec(f) == reconstruct_secret(by_facility[f][1].threshold, raw(f))
        ok == {f \in DOMAIN by_facility :
                 /\ by_facility[f] # <<>>
                 /\ Len(raw(f)) >= by_facility[f][1].threshold
                 /\ ~rec(f).raised
                 /\ rec(f).bytes # <<>>}
    IN [f \in ok |-> rec(f).bytes]

\* ------------------------------------------------- the state of the servers
\* What the validator, fog-node and leader handlers read and write.
World ==
    [ vr |-> vote_records, vs |-> validated_shares,
      sbf |-> shares_by_facility, rs |-> received_shares,
      fr |-> fog_training_round, ft |-> fog_threads,
      la |-> fog_aggregations, lt |-> leader_threads,
      fc |-> fwdCount, fw |-> forwards,
      cv |-> cast_votes, vm |-> vote_messages, ac |-> accepted ]

Commit(w) ==
    /\ vote_records' = w.vr
    /\ validated_shares' = w.vs
    /\ shares_by_facility' = w.sbf
    /\ received_shares' = w.rs
    /\ fog_training_round' = w.fr
    /\ fog_threads' = w.ft
    /\ fog_aggregations' = w.la
    /\ leader_threads' = w.lt
    /\ fwdCount' = w.fc
    /\ forwards' = w.fw
    /\ cast_votes' = w.cv
    /\ vote_messages' = w.vm
    /\ accepted' = w.ac

\* ------------------------------------------------------ trusted authority
\* distribute_global_model: access_policy; no region is required
access_policy == [facility_type |-> "hospital", region |-> <<>>,
                  certified |-> <<TRUE>>]

\* check_facility_attributes: a requirement that is absent (<<>>) is skipped
check_facility_attributes(facility_attributes, policy) ==
    /\ policy.facility_type # ""
          => facility_attributes.facility_type = policy.facility_type
    /\ policy.region # <<>>
          => facility_attributes.region = policy.region[1]
    /\ policy.certified # <<>>
          => facility_attributes.certified = policy.certified[1]

\* an encrypt_model_with_cp_abe that accepts whatever it is given
encrypt_accepts_any(model_data) == TRUE

\* encrypt_model_with_cp_abe returns: hashlib.sha256(model_data) raises
\* TypeError unless model_data is bytes
encrypt_model_with_cp_abe(model_data) == model_data = "bytes"

\* what request.get_json() can hold under 'encrypted_data'; JSON has no bytes
JsonValues == {"str", "null"}

\* distribute_global_model: the facilities the loop selects, and those whose
\* /receive_global_model is posted to; the loop ends in the except clause at
\* the first facility selected when encrypt_model_with_cp_abe raises
Authorized(registry) ==
    {f \in DOMAIN registry :
        check_facility_attributes(registry[f], access_policy)}

Recipients(registry, model_data) ==
    IF encrypt_model_with_cp_abe(model_data) THEN Authorized(registry) ELSE {}

\* hierta.attribute_universe
attribute_universe ==
    {"hospital", "clinic", "research_center", "north", "south", "east", "west"}

\* attributes.values() of a registration: each value with what
\* isinstance(attr, str) says of it; 'certified' is a JSON boolean
AttributeValues(attributes) ==
    << [str |-> TRUE, value |-> attributes.facility_type],
       [str |-> TRUE, value |-> attributes.region],
       [str |-> FALSE,
        value |-> IF attributes.certified THEN "True" ELSE "False"] >>

\* a register_facility that validates no attribute
valid_attributes_unchecked(attributes) == TRUE

\* register_facility: all(attr in attribute_universe for attr in
\* attributes.values() if isinstance(attr, str))
valid_attributes(attributes) ==
    \A i \in DOMAIN AttributeValues(attributes) :
        AttributeValues(attributes)[i].str
            => AttributeValues(attributes)[i].value \in attribute_universe

\* verify_proof_of_work: the nonce is "mined" when sha256 of
\* nonce||facility_id||public_key is below pow_target, and hash_result is
\* "computed" when it equals that hash
verify_proof_of_work(req) ==
    req.nonce = "mined" /\ req.hash_result = "computed"

\* hierfedclient: facility_public_key, one per facility process
facility_public_key(f) == f

\* hierfedclient.register_facility: registration_data, with the nonce
\* solve_proof_of_work returns
registration_data(f, facility_type) ==
    [facility_id |-> f, public_key |-> facility_public_key(f),
     nonce |-> "mined", hash_result |-> "computed",
     attributes |-> [facility_type |-> facility_type, region |-> "north",
                     certified |-> TRUE]]

NoRegistration ==
    [status |-> 0, nonce |-> "", hash_result |-> "",
     attributes |-> [facility_type |-> "", region |-> "",
                     certified |-> FALSE]]

NoDistribution == [status |-> 0, recipients |-> {}, authorized |-> {},
                   revoked |-> {}, failed |-> {}]

\* --------------------------------------------- OptimizedShamirSecretSharing
\* the arithmetic of the NumPy integer types
uint8(z) == z % (2 ^ 8)
uint16(z) == z % (2 ^ 16)

RECURSIVE Power(_, _)
Power(x, e) == IF e = 0 THEN 1 ELSE x * Power(x, e - 1)

\* split_secret, one byte of share x: share_data starts as the secret byte in
\* uint16 and "coeffs[:, power] * (x ** (power + 1))", a product of uint8,
\* is added for each power; then "% 256"
RECURSIVE OptimizedShareByte(_, _, _, _)
OptimizedShareByte(threshold, byte_val, byte_coeffs, x) ==
    IF threshold = 1 THEN byte_val
    ELSE uint16(OptimizedShareByte(threshold - 1, byte_val, byte_coeffs, x)
                  + uint8(byte_coeffs[threshold - 1]
                              * uint8(Power(x, threshold - 1))))

\* OptimizedShamirSecretSharing.split_secret: the shares are byte strings and
\* carry no x; coeffs[b][p] is what self.rng.randint drew for byte b
optimized_split_secret(threshold, num_shares, secret_bytes, coeffs) ==
    [share_idx \in 1 .. num_shares |->
        [b \in 1 .. Len(secret_bytes) |->
            OptimizedShareByte(threshold, secret_bytes[b], coeffs[b],
                               uint8(share_idx)) % 256]]

\* reconstruct_secret: numerator and denominator of the coefficient of the
\* share in position i, taken to be the share of x = i + 1
RECURSIVE OptimizedNumerator(_, _, _)
OptimizedNumerator(threshold, i, j) ==
    IF j >= threshold THEN 1
    ELSE (IF i # j THEN 0 - (j + 1) ELSE 1)
             * OptimizedNumerator(threshold, i, j + 1)

RECURSIVE OptimizedDenominator(_, _, _)
OptimizedDenominator(threshold, i, j) ==
    IF j >= threshold THEN 1
    ELSE (IF i # j THEN (i + 1) - (j + 1) ELSE 1)
             * OptimizedDenominator(threshold, i, j + 1)

OptimizedCoeff(threshold, i) ==
    OptimizedNumerator(threshold, i, 0)
        \div OptimizedDenominator(threshold, i, 0)

\* "reconstructed += shares_arrays[i] * coeff" for positions i .. threshold-1
\* of one byte: a uint8 product for coeff >= 0, and for coeff < 0 a signed
\* product cast into the uint16 accumulator
RECURSIVE OptimizedAccumulate(_, _, _, _)
OptimizedAccumulate(threshold, shares_arrays, b, i) ==
    IF i >= threshold THEN 0
    ELSE LET coeff == OptimizedCoeff(threshold, i)
             term == IF coeff >= 0
                     THEN uint8(shares_arrays[i + 1][b] * coeff)
                     ELSE shares_arrays[i + 1][b] * coeff
         IN uint16(term + OptimizedAccumulate(threshold, shares_arrays,
                                              b, i + 1))

\* OptimizedShamirSecretSharing.reconstruct_secret.  A negative coeff makes
\* "shares_arrays[i] * coeff" signed; adding it in place to the uint16 array
\* raises under the casting rule "same_kind" (and the product itself raises
\* OverflowError where Python integers are not promoted), and wraps under
\* the rule "unsafe" of older NumPy
optimized_reconstruct_secret(threshold, shares_subset, casting) ==
    IF Len(shares_subset) < threshold
    THEN [raised |-> TRUE, bytes |-> <<>>]
    ELSE IF casting = "same_kind"
            /\ \E i \in 0 .. (threshold - 1) : OptimizedCoeff(threshold, i) < 0
    THEN [raised |-> TRUE, bytes |-> <<>>]
    ELSE [raised |-> FALSE,
          bytes |-> [b \in 1 .. Len(shares_subset[1]) |->
                        OptimizedAccumulate(threshold, shares_subset, b, 0)
                            % 256]]

\* ------------------------------------------------ arithmetic of the models
\* a model is a list of layers and a layer is taken as one weight; weights
\* are whole multiples of WeightUnit, for which "/ num_facilities" is exact
WeightUnit == number_of_facilities * num_fog_nodes

\* the sum over ids of models[id][layer_idx]
RECURSIVE SumLayer(_, _, _)
SumLayer(models_by_id, ids, layer_idx) ==
    IF ids = {} THEN 0
    ELSE LET id == CHOOSE x \in ids : TRUE
         IN models_by_id[id][layer_idx]
                + SumLayer(models_by_id, ids \ {id}, layer_idx)

\* the sum over ids of models[id][layer_idx] / n
RECURSIVE SumLayerDivided(_, _, _, _)
SumLayerDivided(models_by_id, ids, layer_idx, n) ==
    IF ids = {} THEN 0
    ELSE LET id == CHOOSE x \in ids : TRUE
         IN (models_by_id[id][layer_idx] \div n)
                + SumLayerDivided(models_by_id, ids \ {id}, layer_idx, n)

\* hierfognode.fedavg_aggregation on models of numbers:
\* aggregated_model[layer_idx] += layer_params / num_facilities
fedavg_aggregation_weights(facility_models) ==
    LET first_model ==
            facility_models[CHOOSE fid \in DOMAIN facility_models : TRUE]
        num_facilities == Cardinality(DOMAIN facility_models)
    IN [layer_idx \in DOMAIN first_model |->
           SumLayerDivided(facility_models, DOMAIN facility_models,
                           layer_idx, num_facilities)]

\* hierleadserver.global_aggregation on models of numbers:
\* global_model[layer_idx] += layer_params, and no division
global_aggregation_weights(fog_models) ==
    [layer_idx \in DOMAIN fog_models[1] |->
        SumLayer(fog_models, DOMAIN fog_models, layer_idx)]

NoAveraging ==
    [pc |-> "none", facility_models |-> <<>>, fog_models |-> <<>>,
     global_model |-> <<>>]

\* ---------------------------------------------------------------- leader
\* verify_fog_node_signature: a format check of the signature
verify_fog_node_signature(partial) == partial.sig

\* receive_fog_aggregation
receive_fog_aggregation(w, partial) ==
    IF ~verify_fog_node_signature(partial)
    THEN w
    ELSE LET la2 == Append(w.la, partial)
         IN [w EXCEPT !.la = la2,
                      !.ac = @ + 1,
                      !.lt.start = IF Len(la2) >= num_fog_nodes
                                   THEN @ + 1 ELSE @]

\* global_aggregation: None (no model) on an empty list, else the sum of the
\* models of the partials in the list; round is the leader's training_round
global_aggregation(aggs, round) ==
    IF aggs = <<>> THEN {}
    ELSE {[round |-> round,
           parts |-> [k \in 1 .. Len(aggs) |-> aggs[k].fog_node_id]]}

\* ---------------------------------------------------------------- fog node
\* verify_committee_signature: len(signature) == 64 and signature.isalnum().
\* "sha256" is what hiervalidator.sign_committee_approval returns for the
\* share, "forged" any other string of 64 letters and digits, "" the default
\* of share_data.get('committee_signature', '')
verify_committee_signature(fwd) == fwd.csig \in {"sha256", "forged"}

\* a readiness test that is content with secret_threshold shares per facility
all_facilities_at_threshold(buf) ==
    \A fid \in Facilities :
        fid \in DOMAIN buf /\ Len(buf[fid]) >= secret_threshold

\* receive_share: the loop over range(number_of_facilities)
all_facilities_ready(buf) ==
    \A fid \in Facilities :
        fid \in DOMAIN buf /\ Len(buf[fid]) >= secret_num_shares_computed

\* receive_share
receive_share(w, g, fwd) ==
    IF ~verify_committee_signature(fwd)
    THEN w
    ELSE LET fid == fwd.facility_id
             buf == Put(w.sbf[g], fid, Append(Get(w.sbf[g], fid, <<>>), fwd))
         IN [w EXCEPT !.rs[g] = @ + 1,
                      !.sbf[g] = buf,
                      !.ft[g].start = IF all_facilities_ready(buf)
                                      THEN @ + 1 ELSE @]

\* facility_shares.sort(key=share_id): a stable sort, in place
RECURSIVE InsertShare(_, _)
InsertShare(s, e) ==
    IF s = <<>> THEN <<e>>
    ELSE IF s[Len(s)].share_id <= e.share_id THEN Append(s, e)
    ELSE Append(InsertShare(SubSeq(s, 1, Len(s) - 1), e), s[Len(s)])

RECURSIVE SortShares(_)
SortShares(s) ==
    IF s = <<>> THEN s
    ELSE InsertShare(SortShares(SubSeq(s, 1, Len(s) - 1)), s[Len(s)])

\* reconstruct_secret_shares: the buffers sorted in place, and per facility
\* what pickle.loads returns on the concatenated fragments, which is the
\* object pickled in the first fragment; a fragment that is no pickle raises
\* and the facility is skipped
reconstruct_secret_shares(buf) ==
    LET sorted == [fid \in DOMAIN buf |-> SortShares(buf[fid])]
        ok == {fid \in DOMAIN buf : sorted[fid][1].kind # "garbage"}
    IN [sorted |-> sorted,
        facility_models |-> [fid \in ok |-> sorted[fid][1].kind]]

\* hierfognode.reconstruct_secret_shares on formatted shares: the fragments
\* of a facility, sorted by share_id, are decoded from base64 and
\* concatenated, and pickle.loads returns the first object pickled in the
\* concatenation, which is the raw share of the lowest share_id: a list of
\* (x, y) pairs.  A facility without a fragment is left out
fog_reconstruct_secret_shares(by_facility) ==
    LET sorted == [f \in DOMAIN by_facility |-> SortShares(by_facility[f])]
    IN [f \in {g \in DOMAIN by_facility : by_facility[g] # <<>>} |->
           [type |-> "list of (x, y)",
            value |-> DecodeFragment(sorted[f][1].data_fragment)]]

\* fedavg_aggregation: None without models; "layer_params / num_facilities"
\* raises TypeError on the layers of a Shamir share (tuples, or ints added in
\* place to an integer array); it returns on arrays of floats
fedavg_aggregation(facility_models) ==
    IF DOMAIN facility_models = {} THEN "None"
    ELSE IF \E fid \in DOMAIN facility_models : facility_models[fid] = "sss"
         THEN "TypeError"
         ELSE "model"

\* send_to_leader_server
send_to_leader_server(w, g) ==
    receive_fog_aggregation(w,
        [fog_node_id |-> g, round |-> w.fr[g],
         num_facilities_aggregated |-> w.rs[g], sig |-> TRUE])

\* --------------------------------------------------------------- validator
\* verify_facility_signature: a non-empty string that parses as hex or base64
verify_facility_signature(signature) == signature \in {"hex", "base64"}

\* validate_share_integrity
validate_share_integrity(req) ==
    /\ req.total_shares = num_fog_nodes
    /\ req.threshold = secret_threshold

\* the vote cast_vote decides on
Verdict(req) ==
    IF ~verify_facility_signature(req.signature) THEN 0
    ELSE IF ~validate_share_integrity(req) THEN 0
    ELSE IF req.size = 0 THEN 0
    ELSE IF req.size > FragmentLimit THEN 0
    ELSE 1

\* vote_records[share_id][validator_id] = vote, on a defaultdict(dict)
RecordVote(w, v, uid, voter, vote) ==
    [w EXCEPT !.vr[v] = Put(@, uid, Put(Get(@, uid, EmptyDict), voter, vote))]

\* cast_vote
cast_vote(w, v, uid, req) == RecordVote(w, v, uid, v, Verdict(req))

\* check_consensus: the number of approving votes
ApproveVotes(w, v, uid) ==
    IF uid \notin DOMAIN w.vr[v] THEN 0
    ELSE Cardinality({x \in DOMAIN w.vr[v][uid] : w.vr[v][uid][x] = 1})

check_consensus(w, v, uid) == ApproveVotes(w, v, uid) >= consensus_threshold

\* the fog node broadcast_to_fog_nodes posts to
FogOf(share_id) == (share_id - 1) % num_fog_nodes

\* broadcast_to_fog_nodes, then the lines of receive_vote after it
broadcast_to_fog_nodes(w, v, uid, req) ==
    LET g == FogOf(req.share_id)
        fwd == [facility_id |-> req.facility_id, share_id |-> req.share_id,
                kind |-> req.kind, uid |-> req.share_uid, round |-> req.round,
                csig |-> "sha256", validator_id |-> v]
        w1 == receive_share(w, g, fwd)
        w2 == [w1 EXCEPT
                 !.fc = Put(@, uid, Get(@, uid, 0) + 1),
                 !.fw = @ \cup {[uid |-> uid, by |-> v,
                                 approvals |-> ApproveVotes(w, v, uid),
                                 req |-> req]}]
    IN  \* status 200: validated_shares.append, del vote_records[share_id]
        IF verify_committee_signature(fwd)
        THEN [w2 EXCEPT !.vs[v] = Put(@, uid, Get(@, uid, 0) + 1),
                        !.vr[v] = Del(@, uid)]
        ELSE w1

\* a verdict cast_vote returned to a handler of validator v is counted
CountVerdict(w, v, uid, handler) ==
    LET key == [share_id |-> uid, validator_id |-> v, handler |-> handler]
    IN [w EXCEPT !.cv = Put(@, key, Get(@, key, 0) + 1)]

\* a requests.post of broadcast_vote_to_committee to peer p is counted
CountPost(w, v, uid, p) ==
    LET key == [share_id |-> uid, validator_id |-> v, to |-> p]
    IN [w EXCEPT !.vm = Put(@, key, Get(@, key, 0) + 1)]

\* a receive_vote that posts the vote it casts to the other validators
RECURSIVE PostToPeers(_, _, _, _)
PostToPeers(w, v, uid, p) ==
    IF p >= committee_size THEN w
    ELSE IF p = v THEN PostToPeers(w, v, uid, p + 1)
    ELSE PostToPeers(CountPost(w, v, uid, p), v, uid, p + 1)

receive_vote_gossiping(w, v, msg) ==
    LET uid == msg.share_id
        w1 == RecordVote(w, v, uid, msg.validator_id, msg.vote)
        w2 == IF v \notin DOMAIN w1.vr[v][uid]
              THEN PostToPeers(
                       CountVerdict(cast_vote(w1, v, uid, msg.share_data),
                                    v, uid, "receive_vote"), v, uid, 0)
              ELSE w1
    IN IF check_consensus(w2, v, uid)
       THEN broadcast_to_fog_nodes(w2, v, uid, msg.share_data)
       ELSE w2

\* receive_vote
receive_vote(w, v, msg) ==
    LET uid == msg.share_id
        w1 == RecordVote(w, v, uid, msg.validator_id, msg.vote)
        w2 == IF v \notin DOMAIN w1.vr[v][uid]
              THEN CountVerdict(cast_vote(w1, v, uid, msg.share_data),
                                v, uid, "receive_vote")
              ELSE w1
    IN IF check_consensus(w2, v, uid)
       THEN broadcast_to_fog_nodes(w2, v, uid, msg.share_data)
       ELSE w2

\* a broadcast_vote_to_committee that leaves out the peers that are down
RECURSIVE broadcast_vote_to_reachable(_, _, _, _)
broadcast_vote_to_reachable(w, v, msg, p) ==
    IF p >= committee_size THEN w
    ELSE IF p = v \/ p \in down \/ p \in byzantine
         THEN broadcast_vote_to_reachable(w, v, msg, p + 1)
         ELSE broadcast_vote_to_reachable(
                  receive_vote(CountPost(w, v, msg.share_id, p), p, msg),
                  v, msg, p + 1)

\* broadcast_vote_to_committee: the peers in the order of get_other_validators;
\* the post to a peer that is down raises and is caught
RECURSIVE broadcast_vote_to_committee(_, _, _, _)
broadcast_vote_to_committee(w, v, msg, p) ==
    IF p >= committee_size THEN w
    ELSE IF p = v THEN broadcast_vote_to_committee(w, v, msg, p + 1)
    ELSE LET w1 == CountPost(w, v, msg.share_id, p)
         IN IF p \in down \/ p \in byzantine
            THEN broadcast_vote_to_committee(w1, v, msg, p + 1)
            ELSE broadcast_vote_to_committee(receive_vote(w1, p, msg), v, msg,
                                             p + 1)

\* validate_share
validate_share(w, v, req) ==
    LET uid == req.share_uid
        w1 == CountVerdict(cast_vote(w, v, uid, req), v, uid, "validate_share")
        msg == [share_id |-> uid, validator_id |-> v, vote |-> Verdict(req),
                share_data |-> req]
    IN broadcast_vote_to_committee(w1, v, msg, 0)

\* ---------------------------------------------------------------- facility
\* the signed share send_to_validator_committee builds from share i of
\* shamirs_secret_sharing in round r
SignedShare(f, i, r) ==
    [facility_id |-> f, share_id |-> i + 1, threshold |-> secret_threshold,
     total_shares |-> secret_num_shares_computed, size |-> 1, kind |-> "sss",
     share_uid |-> <<f, i, r>>, signature |-> "hex", round |-> r,
     signed_payload |-> "sss"]

\* send_to_validator_committee
send_to_validator_committee(w, f, i, r) ==
    LET v == i % committee_size
    IN IF v \in down \/ v \in byzantine THEN w
       ELSE validate_share(w, v, SignedShare(f, i, r))

\* --------------------------------------------------------------------- Init
InitServers ==
    /\ vote_records = [v \in Validators |-> EmptyDict]
    /\ validated_shares = [v \in Validators |-> EmptyDict]
    /\ shares_by_facility = [g \in Fogs |-> EmptyDict]
    /\ received_shares = [g \in Fogs |-> 0]
    /\ fog_training_round = [g \in Fogs |-> 0]
    /\ fog_threads = [g \in Fogs |-> [start |-> 0, sent |-> 0]]
    /\ fog_aggregations = <<>>
    /\ leader_training_round = 0
    /\ leader_threads = [start |-> 0, sent |-> 0]
    /\ registered_facilities = EmptyDict
    /\ issued_keys = {}
    /\ facility_training_round = [f \in Facilities |-> 0]
    /\ facility_threads = [f \in Facilities |-> 0]
    /\ fwdCount = EmptyDict
    /\ forwards = {}
    /\ reconstructions = {}
    /\ models = {}
    /\ modelCount = EmptyDict
    /\ delivered = {}
    /\ distribution = NoDistribution
    /\ posted = 0
    /\ seen = EmptyDict
    /\ loaded = [fog |-> [g \in Fogs |-> EmptyDict],
                 leader |-> EmptyDict,
                 facility |-> [f \in Facilities |-> EmptyDict]]
    /\ registration = NoRegistration
    /\ ta_handlers = {}
    /\ accepted = 0
    /\ aggregated = EmptyDict
    /\ facility_sent = [f \in Facilities |-> 0]
    /\ cast_votes = EmptyDict
    /\ vote_messages = EmptyDict
    /\ averaging = NoAveraging

\* no ShamirSecretSharing object is in use
NoSharing ==
    [pc |-> "none", threshold |-> 0, num_shares |-> 0, secret |-> <<>>,
     shares |-> <<>>, subset |-> <<>>,
     result |-> [raised |-> FALSE, bytes |-> <<>>],
     given |-> <<>>, facility_models |-> <<>>]

Init ==
    /\ InitServers
    /\ down = {}
    /\ byzantine = {}
    /\ sss = NoSharing

\* ------------------------------------------------------------------ actions
ServersUnchanged ==
    UNCHANGED << vote_records, validated_shares, shares_by_facility,
                 received_shares, fog_training_round, fog_threads,
                 fog_aggregations, leader_threads, fwdCount, forwards, cast_votes, vote_messages, accepted >>

\* hierta.register_facility: 401 when the proof of work does not verify,
\* 400 when an attribute is refused, else the record is stored and a key issued
register_facility(req) ==
    /\ IF ~verify_proof_of_work(req)
       THEN /\ registration' = [status |-> 401, nonce |-> req.nonce,
                                hash_result |-> req.hash_result,
                                attributes |-> req.attributes]
            /\ UNCHANGED << registered_facilities, issued_keys, distribution >>
       ELSE IF ~valid_attributes(req.attributes)
       THEN /\ registration' = [status |-> 400, nonce |-> req.nonce,
                                hash_result |-> req.hash_result,
                                attributes |-> req.attributes]
            /\ UNCHANGED << registered_facilities, issued_keys, distribution >>
       ELSE /\ registration' = [status |-> 200, nonce |-> req.nonce,
                                hash_result |-> req.hash_result,
                                attributes |-> req.attributes]
            /\ registered_facilities' =
                   Put(registered_facilities, req.facility_id,
                       [status |-> "registered",
                        public_key |-> req.public_key,
                        facility_type |-> req.attributes.facility_type,
                        region |-> req.attributes.region,
                        certified |-> req.attributes.certified])
            /\ issued_keys' = issued_keys \cup {req.facility_id}
            /\ distribution' =
                   [distribution EXCEPT !.failed = @ \ {req.facility_id}]
    /\ ServersUnchanged
    /\ UNCHANGED << leader_training_round, facility_training_round,
                    facility_threads, down, ta_handlers, aggregated, facility_sent, averaging, sss, loaded, byzantine,
                    reconstructions, models, modelCount, delivered,
                    posted, seen >>

\* hierfedclient.register_facility -> hierta.register_facility
Register(f) == register_facility(registration_data(f, "hospital"))

\* hierfedclient.start_round: the thread start_next_round is started
StartRound(f) ==
    /\ facility_training_round[f] + facility_threads[f] < MaxRounds
    /\ facility_threads' = [facility_threads EXCEPT ![f] = @ + 1]
    /\ ServersUnchanged
    /\ UNCHANGED << leader_training_round, registered_facilities, issued_keys,
                    facility_training_round, down, ta_handlers, aggregated, facility_sent, averaging, registration, sss, loaded, byzantine, reconstructions,
                    models, modelCount, delivered, distribution, posted, seen >>

\* start_next_round: the loop over secret_shares from share i on
RECURSIVE SendShares(_, _, _, _)
SendShares(w, f, i, r) ==
    IF i >= secret_num_shares_computed THEN w
    ELSE SendShares(send_to_validator_committee(w, f, i, r), f, i + 1, r)

\* start_next_round, the body of the thread
start_next_round(f) ==
    LET r == facility_training_round[f]
    IN /\ facility_threads[f] > 0
       /\ Commit(SendShares(World, f, 0, r))
       /\ LET sent == {SignedShare(f, i, r) :
                          i \in 0 .. (secret_num_shares_computed - 1)}
          IN seen' = [s \in DOMAIN seen \cup sent |->
                         Get(seen, s, 0) + (IF s \in sent THEN 1 ELSE 0)]
       /\ facility_threads' = [facility_threads EXCEPT ![f] = @ - 1]
       /\ facility_training_round' =
              [facility_training_round EXCEPT ![f] = r + 1]
       /\ UNCHANGED << leader_training_round, registered_facilities,
                       issued_keys, down, ta_handlers, aggregated, facility_sent, averaging, registration, sss, loaded, byzantine, reconstructions, models,
                       modelCount, delivered, distribution, posted >>

\* hierfognode.process_aggregation up to the return of send_to_leader_server
process_aggregation(g) ==
    /\ fog_threads[g].start > 0
    /\ LET rec == reconstruct_secret_shares(shares_by_facility[g])
           result == fedavg_aggregation(rec.facility_models)
           w0 == [World EXCEPT !.sbf[g] = rec.sorted,
                               !.ft[g].start = @ - 1]
       IN /\ reconstructions' = reconstructions \cup
                 {[fog |-> g, facility |-> fid,
                   share_ids |-> {rec.sorted[fid][k].share_id :
                                     k \in 1 .. Len(rec.sorted[fid])}] :
                  fid \in DOMAIN rec.facility_models}
          /\ IF result = "model"
             THEN Commit(send_to_leader_server(
                             [w0 EXCEPT !.ft[g].sent = @ + 1], g))
             ELSE Commit(w0)
    /\ UNCHANGED << leader_training_round, registered_facilities, issued_keys,
                    facility_training_round, facility_threads, down, ta_handlers, aggregated, facility_sent, averaging, registration, sss, loaded,
                    byzantine, models, modelCount, delivered, distribution, posted, seen >>

\* process_aggregation after send_to_leader_server: clear and count the round
process_aggregation_clear(g) ==
    /\ fog_threads[g].sent > 0
    /\ fog_threads' = [fog_threads EXCEPT ![g].sent = @ - 1]
    /\ received_shares' = [received_shares EXCEPT ![g] = 0]
    /\ shares_by_facility' = [shares_by_facility EXCEPT ![g] = EmptyDict]
    /\ fog_training_round' = [fog_training_round EXCEPT ![g] = @ + 1]
    /\ UNCHANGED << vote_records, validated_shares, fog_aggregations,
                    leader_training_round, leader_threads,
                    registered_facilities, issued_keys,
                    facility_training_round, facility_threads, down, ta_handlers, aggregated, facility_sent, averaging, registration, sss, loaded,
                    byzantine, fwdCount, forwards, cast_votes, vote_messages, accepted, reconstructions, models,
                    modelCount, delivered, distribution, posted, seen >>

\* the arrival numbers of the partials in fog_aggregations: the list is
\* appended to and cleared as a whole, so it holds the latest arrivals
Buffered == (accepted - Len(fog_aggregations) + 1) .. accepted

\* hierleadserver.process_global_aggregation up to the return of
\* broadcast_global_model.  encrypt_global_model puts bytes in the dict that
\* requests.post(json=...) has to encode: the standard json module raises
\* TypeError, which is not a RequestException, and the thread ends; with
\* simplejson requests raises InvalidJSONError, a RequestException, and
\* broadcast_global_model returns False.  No request reaches the TA.
process_global_aggregation(outcome) ==
    /\ leader_threads.start > 0
    /\ LET global_model == global_aggregation(fog_aggregations,
                                              leader_training_round)
       IN IF global_model = {}
          THEN /\ leader_threads' = [leader_threads EXCEPT !.start = @ - 1]
               /\ UNCHANGED << models, modelCount, aggregated >>
          ELSE /\ models' = models \cup global_model
               /\ modelCount' = Put(modelCount, leader_training_round,
                                    Get(modelCount, leader_training_round, 0) + 1)
               /\ aggregated' =
                      [n \in DOMAIN aggregated \cup Buffered |->
                          Get(aggregated, n, 0)
                              + (IF n \in Buffered THEN 1 ELSE 0)]
               /\ leader_threads' =
                      [leader_threads EXCEPT
                          !.start = @ - 1,
                          !.sent = IF outcome = "False" THEN @ + 1 ELSE @]
    /\ UNCHANGED << vote_records, validated_shares, shares_by_facility,
                    received_shares, fog_training_round, fog_threads,
                    fog_aggregations, leader_training_round,
                    registered_facilities, issued_keys,
                    facility_training_round, facility_threads, down, ta_handlers, facility_sent, averaging, registration, sss, loaded,
                    byzantine, fwdCount, forwards, cast_votes, vote_messages, accepted, reconstructions, delivered, distribution,
                    posted, seen >>

\* process_global_aggregation after broadcast_global_model
process_global_aggregation_clear ==
    /\ leader_threads.sent > 0
    /\ leader_threads' = [leader_threads EXCEPT !.sent = @ - 1]
    /\ fog_aggregations' = <<>>
    /\ leader_training_round' = leader_training_round + 1
    /\ UNCHANGED << vote_records, validated_shares, shares_by_facility,
                    received_shares, fog_training_round, fog_threads,
                    registered_facilities, issued_keys,
                    facility_training_round, facility_threads, down, ta_handlers, aggregated, facility_sent, averaging, registration, sss, loaded,
                    byzantine, fwdCount, forwards, cast_votes, vote_messages, accepted, reconstructions, models,
                    modelCount, delivered, distribution, posted, seen >>

\* ------------------------------------------- "training_round += 1" in threads
\* The statement loads the global, adds one and stores the result; no lock is
\* held, so other threads of the process can run between load and store.
\* process_aggregation_clear and process_global_aggregation_clear are the
\* schedules in which none does.
AddLoaded(d, r) == Put(d, r, Get(d, r, 0) + 1)
DropLoaded(d, r) == IF d[r] = 1 THEN Del(d, r) ELSE Put(d, r, d[r] - 1)

\* hierfedclient.receive_global_model: 400 without a JSON body or without
\* 'encrypted_data', else the thread start_next_round is started
GlobalModelPayloads ==
    {[json |-> FALSE, encrypted_data |-> ""],
     [json |-> TRUE, encrypted_data |-> ""],
     [json |-> TRUE, encrypted_data |-> "base64"]}

receive_global_model(f, encrypted_model_data) ==
    /\ posted < MaxGlobalModels
    /\ facility_threads' =
           IF encrypted_model_data.json
              /\ encrypted_model_data.encrypted_data # ""
           THEN [facility_threads EXCEPT ![f] = @ + 1]
           ELSE facility_threads
    /\ posted' = posted + 1
    /\ ServersUnchanged
    /\ UNCHANGED << leader_training_round, registered_facilities, issued_keys,
                    facility_training_round, facility_sent, down, ta_handlers, aggregated, byzantine,
                    reconstructions, models, modelCount, delivered,
                    distribution, seen, loaded, registration,
                    averaging, sss >>

\* the number of threads between load and store
RECURSIVE SumLoaded(_)
SumLoaded(d) ==
    IF DOMAIN d = {} THEN 0
    ELSE LET r == CHOOSE r \in DOMAIN d : TRUE
         IN d[r] + SumLoaded(Del(d, r))

\* ------------------------------------- the thread start_next_round, by steps
\* the classes of requests.RequestException a post of a share can raise
RequestException == {"ConnectionError", "Timeout"}

\* an except clause that catches timeouts only
catches_timeout_only(e) == e = "Timeout"

\* send_to_validator_committee: except requests.RequestException
caught_by_send(e) == e \in RequestException

\* the share indices whose validator does not answer
FailingPosts == {i \in 0 .. (secret_num_shares_computed - 1) :
                    (i % committee_size) \in down \cup byzantine}

\* the index at which the loop over secret_shares ends: the first post whose
\* exception is not caught, or the number of shares
LoopEnd(failure) ==
    IF FailingPosts # {} /\ ~caught_by_send(failure)
    THEN CHOOSE i \in FailingPosts : \A j \in FailingPosts : i <= j
    ELSE secret_num_shares_computed

\* start_next_round: the loop over secret_shares from share i up to stop
RECURSIVE SendSharesUpTo(_, _, _, _, _)
SendSharesUpTo(w, f, i, r, stop) ==
    IF i >= stop THEN w
    ELSE SendSharesUpTo(send_to_validator_committee(w, f, i, r), f, i + 1, r,
                        stop)

\* start_next_round from its start to the end of the loop over secret_shares
\* (lines 147-214); a post that fails raises failure
start_next_round_send(f, failure) ==
    LET r == facility_training_round[f]
        stop == LoopEnd(failure)
        attempted == IF stop < secret_num_shares_computed THEN stop + 1
                     ELSE stop
    IN /\ facility_threads[f] > 0
       /\ Commit(SendSharesUpTo(World, f, 0, r, stop))
       /\ LET sent == {SignedShare(f, i, r) : i \in 0 .. (attempted - 1)}
          IN seen' = [s \in DOMAIN seen \cup sent |->
                         Get(seen, s, 0) + (IF s \in sent THEN 1 ELSE 0)]
       /\ facility_threads' = [facility_threads EXCEPT ![f] = @ - 1]
       /\ facility_sent' = IF stop < secret_num_shares_computed
                           THEN facility_sent
                           ELSE [facility_sent EXCEPT ![f] = @ + 1]
       /\ UNCHANGED << leader_training_round, registered_facilities,
                       issued_keys, facility_training_round, down, ta_handlers, aggregated, byzantine,
                       reconstructions, models, modelCount, delivered,
                       distribution, posted, loaded, registration, averaging,
                       sss >>

\* start_next_round, the load of training_round in line 219
start_next_round_load(f) ==
    /\ facility_sent[f] > 0
    /\ facility_sent' = [facility_sent EXCEPT ![f] = @ - 1]
    /\ loaded' = [loaded EXCEPT
                     !.facility[f] = AddLoaded(@, facility_training_round[f])]
    /\ ServersUnchanged
    /\ UNCHANGED << leader_training_round, registered_facilities, issued_keys,
                    facility_training_round, facility_threads, down, ta_handlers, aggregated, byzantine,
                    reconstructions, models, modelCount, delivered,
                    distribution, posted, seen, registration, averaging, sss >>

\* start_next_round, the store of line 219
start_next_round_store(f, r) ==
    /\ r \in DOMAIN loaded.facility[f]
    /\ facility_training_round' = [facility_training_round EXCEPT ![f] = r + 1]
    /\ loaded' = [loaded EXCEPT !.facility[f] = DropLoaded(@, r)]
    /\ ServersUnchanged
    /\ UNCHANGED << leader_training_round, registered_facilities, issued_keys,
                    facility_threads, facility_sent, down, ta_handlers, aggregated, byzantine,
                    reconstructions, models, modelCount, delivered,
                    distribution, posted, seen, registration, averaging, sss >>

\* the threads of start_next_round that facility f has started and that have
\* not ended
RoundsInProgress(f) ==
    facility_threads[f] + facility_sent[f]
        + SumLoaded(loaded.facility[f])

\* process_aggregation after send_to_leader_server: the two clear() calls
\* and the load of training_round in line 182
process_aggregation_load(g) ==
    /\ fog_threads[g].sent > 0
    /\ fog_threads' = [fog_threads EXCEPT ![g].sent = @ - 1]
    /\ received_shares' = [received_shares EXCEPT ![g] = 0]
    /\ shares_by_facility' = [shares_by_facility EXCEPT ![g] = EmptyDict]
    /\ loaded' = [loaded EXCEPT !.fog[g] = AddLoaded(@, fog_training_round[g])]
    /\ UNCHANGED << vote_records, validated_shares, fog_training_round,
                    fog_aggregations, leader_training_round, leader_threads,
                    registered_facilities, issued_keys,
                    facility_training_round, facility_threads, down, ta_handlers, aggregated, facility_sent, averaging, registration, sss,
                    byzantine, fwdCount, forwards, cast_votes, vote_messages, accepted, reconstructions, models,
                    modelCount, delivered, distribution, posted, seen >>

\* process_aggregation, the store of line 182
process_aggregation_store(g, r) ==
    /\ r \in DOMAIN loaded.fog[g]
    /\ fog_training_round' = [fog_training_round EXCEPT ![g] = r + 1]
    /\ loaded' = [loaded EXCEPT !.fog[g] = DropLoaded(@, r)]
    /\ UNCHANGED << vote_records, validated_shares, shares_by_facility,
                    received_shares, fog_threads, fog_aggregations,
                    leader_training_round, leader_threads,
                    registered_facilities, issued_keys,
                    facility_training_round, facility_threads, down, ta_handlers, aggregated, facility_sent, averaging, registration, sss,
                    byzantine, fwdCount, forwards, cast_votes, vote_messages, accepted, reconstructions, models,
                    modelCount, delivered, distribution, posted, seen >>

\* process_global_aggregation after broadcast_global_model: clear() and the
\* load of training_round in line 166
process_global_aggregation_load ==
    /\ leader_threads.sent > 0
    /\ leader_threads' = [leader_threads EXCEPT !.sent = @ - 1]
    /\ fog_aggregations' = <<>>
    /\ loaded' = [loaded EXCEPT !.leader = AddLoaded(@, leader_training_round)]
    /\ UNCHANGED << vote_records, validated_shares, shares_by_facility,
                    received_shares, fog_training_round, fog_threads,
                    leader_training_round, registered_facilities, issued_keys,
                    facility_training_round, facility_threads, down, ta_handlers, aggregated, facility_sent, averaging, registration, sss,
                    byzantine, fwdCount, forwards, cast_votes, vote_messages, accepted, reconstructions, models,
                    modelCount, delivered, distribution, posted, seen >>

\* process_global_aggregation, the store of line 166
process_global_aggregation_store(r) ==
    /\ r \in DOMAIN loaded.leader
    /\ leader_training_round' = r + 1
    /\ loaded' = [loaded EXCEPT !.leader = DropLoaded(@, r)]
    /\ UNCHANGED << vote_records, validated_shares, shares_by_facility,
                    received_shares, fog_training_round, fog_threads,
                    fog_aggregations, leader_threads,
                    registered_facilities, issued_keys,
                    facility_training_round, facility_threads, down, ta_handlers, aggregated, facility_sent, averaging, registration, sss,
                    byzantine, fwdCount, forwards, cast_votes, vote_messages, accepted, reconstructions, models,
                    modelCount, delivered, distribution, posted, seen >>

\* ------------------------------------------------------------ other clients
\* a request to /validate_share of validator v made by a client that is not
\* hierfedclient.py: share 1 of a facility, under the share_uid <<f, 0, 0>>
ClientShare(f, kind, signature) ==
    [facility_id |-> f, share_id |-> 1, threshold |-> secret_threshold,
     total_shares |-> secret_num_shares_computed, size |-> 1, kind |-> kind,
     share_uid |-> <<f, 0, 0>>, signature |-> signature, round |-> 0,
     signed_payload |-> kind]

PostShare(v, req) ==
    /\ Commit(validate_share(World, v, req))
    /\ posted' = posted + 1
    /\ seen' = Put(seen, req, Get(seen, req, 0) + 1)
    /\ UNCHANGED << leader_training_round, registered_facilities, issued_keys,
                    facility_training_round, facility_threads, down, ta_handlers, aggregated, facility_sent, averaging, registration, sss, loaded,
                    byzantine, reconstructions, models, modelCount, delivered, distribution >>

\* a client posting one share, with a well-formed or an empty signature, to
\* any validator
ClientPost(v, signature) ==
    /\ posted < MaxClientPosts
    /\ PostShare(v, ClientShare(0, "sss", signature))

\* a share of facility 0 that reaches validator v with the payload it was
\* signed with ("sss") or with a payload changed on the way ("garbage")
TamperedPost(v, payload) ==
    /\ posted < MaxClientPosts
    /\ PostShare(v, [ClientShare(0, "sss", "hex") EXCEPT !.kind = payload])

\* a request whose share_id, fragment size and signature a client chooses;
\* the share_uid is one per content
CheckedShare(share_id, size, signature) ==
    [ClientShare(0, "sss", signature) EXCEPT
        !.share_id = share_id, !.size = size,
        !.share_uid = <<share_id, size, IF signature = "" THEN 0 ELSE 1>>]

CheckedPost(v, share_id, size, signature) ==
    /\ posted < MaxCheckedPosts
    /\ PostShare(v, CheckedShare(share_id, size, signature))

\* a fog node whose process_aggregation reaches send_to_leader_server
PartialPost(g) ==
    /\ posted < MaxPartialPosts
    /\ Commit(send_to_leader_server(World, g))
    /\ posted' = posted + 1
    /\ UNCHANGED << leader_training_round, registered_facilities, issued_keys,
                    facility_training_round, facility_threads, down, ta_handlers, aggregated, facility_sent, averaging,
                    registration, sss, loaded, byzantine, reconstructions,
                    models, modelCount, delivered, distribution, seen >>

\* a client posting to /receive_share of fog node g a share the committee
\* has never seen, under a committee signature of its choice
FogPost(g, f, committee_signature) ==
    /\ posted < MaxFogPosts
    /\ Commit(receive_share(World, g,
                  [facility_id |-> f, share_id |-> g + 1, kind |-> "plain",
                   uid |-> <<f, g + 1, 1>>, round |-> 0,
                   csig |-> committee_signature, validator_id |-> 0]))
    /\ posted' = posted + 1
    /\ UNCHANGED << leader_training_round, registered_facilities, issued_keys,
                    facility_training_round, facility_threads, down, ta_handlers, aggregated, facility_sent, averaging,
                    registration, sss, loaded, byzantine, reconstructions,
                    models, modelCount, delivered, distribution, seen >>

\* a client whose fragments are pickled lists of float arrays
PlainPost(f) ==
    /\ posted < MaxPlainPosts
    /\ PostShare(0, ClientShare(f, "plain", "hex"))

\* a client that posts to validator v, for one facility, as many float-array
\* shares as a fog node waits for
RECURSIVE PostPlainShares(_, _, _, _)
PostPlainShares(w, v, f, n) ==
    IF n = 0 THEN w
    ELSE PostPlainShares(validate_share(w, v, ClientShare(f, "plain", "hex")),
                         v, f, n - 1)

PlainBatch(v, f) ==
    /\ posted < MaxPlainBatches
    /\ v \notin down
    /\ Commit(PostPlainShares(World, v, f, secret_num_shares_computed))
    /\ posted' = posted + 1
    /\ seen' = Put(seen, ClientShare(f, "plain", "hex"),
                   Get(seen, ClientShare(f, "plain", "hex"), 0)
                       + secret_num_shares_computed)
    /\ UNCHANGED << leader_training_round, registered_facilities, issued_keys,
                    facility_training_round, facility_threads, down, ta_handlers, aggregated, facility_sent, averaging, registration, sss, loaded,
                    byzantine, reconstructions, models, modelCount, delivered,
                    distribution >>

\* the Byzantine validator posts a vote message to /receive_vote of p
ByzVote(p, claimed, vote, signature) ==
    /\ posted < MaxByzPosts
    /\ p \notin byzantine
    /\ Commit(receive_vote(World, p,
                  [share_id |-> <<0, 0, 0>>, validator_id |-> claimed,
                   vote |-> vote,
                   share_data |-> ClientShare(0, "sss", signature)]))
    /\ posted' = posted + 1
    /\ UNCHANGED << leader_training_round, registered_facilities, issued_keys,
                    facility_training_round, facility_threads, down, ta_handlers, aggregated, facility_sent, averaging, registration, sss, loaded,
                    byzantine, reconstructions, models, modelCount, delivered, distribution,
                    seen >>

\* ------------------------------------------------------------------ resets
\* hierfognode.reset_round: the buffers are cleared, training_round is kept
reset_round(g) ==
    /\ received_shares' = [received_shares EXCEPT ![g] = 0]
    /\ shares_by_facility' = [shares_by_facility EXCEPT ![g] = EmptyDict]
    /\ UNCHANGED << vote_records, validated_shares, fog_training_round,
                    fog_threads, fog_aggregations, leader_training_round,
                    leader_threads, registered_facilities, issued_keys,
                    facility_training_round, facility_threads, down, ta_handlers, aggregated, facility_sent, averaging, registration, sss, loaded,
                    byzantine, fwdCount, forwards, cast_votes, vote_messages, accepted, reconstructions, models,
                    modelCount, delivered, distribution, posted, seen >>

\* hierleadserver.start_round: fog_aggregations is cleared
leader_start_round ==
    /\ fog_aggregations' = <<>>
    /\ UNCHANGED << vote_records, validated_shares, shares_by_facility,
                    received_shares, fog_training_round, fog_threads,
                    leader_training_round, leader_threads,
                    registered_facilities, issued_keys,
                    facility_training_round, facility_threads, down, ta_handlers, aggregated, facility_sent, averaging, registration, sss, loaded,
                    byzantine, fwdCount, forwards, cast_votes, vote_messages, accepted, reconstructions, models,
                    modelCount, delivered, distribution, posted, seen >>

\* hiervalidator.reset_validator
reset_validator(v) ==
    /\ vote_records' = [vote_records EXCEPT ![v] = EmptyDict]
    /\ validated_shares' = [validated_shares EXCEPT ![v] = EmptyDict]
    /\ UNCHANGED << shares_by_facility, received_shares, fog_training_round,
                    fog_threads, fog_aggregations, leader_training_round,
                    leader_threads, registered_facilities, issued_keys,
                    facility_training_round, facility_threads, down, ta_handlers, aggregated, facility_sent, averaging, registration, sss, loaded,
                    byzantine, fwdCount, forwards, cast_votes, vote_messages, accepted, reconstructions, models,
                    modelCount, delivered, distribution, posted, seen >>

\* --------------------------------------------------------- requests to the TA
\* hierta.revoke_facility: 404 for a facility that is not registered
revoke_facility(f) ==
    /\ IF f \in DOMAIN registered_facilities
       THEN /\ registered_facilities' =
                   [registered_facilities EXCEPT ![f].status = "revoked"]
            /\ issued_keys' = issued_keys \ {f}
       ELSE UNCHANGED << registered_facilities, issued_keys >>
    /\ ServersUnchanged
    /\ UNCHANGED << leader_training_round, facility_training_round,
                    facility_threads, down, ta_handlers, aggregated, facility_sent, averaging, registration, sss, loaded, byzantine, reconstructions, models,
                    modelCount, delivered, distribution, posted, seen >>

\* hierta.distribute_global_model; distribute_to_facility posts to
\* hierfedclient.receive_global_model, which starts start_next_round when
\* the model data is not empty, and returns False for the facilities in
\* unreachable, whose POST fails.  'failed' keeps the facilities selected by
\* the loop that did not get the model and have not registered since
distribute_global_model(model_data, unreachable) ==
    /\ posted < MaxDistributions
    /\ LET authorized == Authorized(registered_facilities)
           recipients == Recipients(registered_facilities, model_data)
           raised == authorized # {} /\ ~encrypt_model_with_cp_abe(model_data)
       IN /\ delivered' = delivered \cup (recipients \ unreachable)
          /\ facility_threads' =
                 [f \in Facilities |->
                     IF f \in recipients \ unreachable /\ model_data # "null"
                     THEN facility_threads[f] + 1 ELSE facility_threads[f]]
          /\ distribution' =
                 [status |-> IF raised THEN 500 ELSE 200,
                  recipients |-> recipients,
                  authorized |-> authorized,
                  revoked |-> {f \in DOMAIN registered_facilities :
                                  registered_facilities[f].status = "revoked"},
                  failed |-> authorized \ (recipients \ unreachable)]
    /\ posted' = posted + 1
    /\ ServersUnchanged
    /\ UNCHANGED << leader_training_round, registered_facilities, issued_keys,
                    facility_training_round, down, ta_handlers, aggregated, facility_sent, averaging, registration,
                    sss, loaded, byzantine, reconstructions, models,
                    modelCount, seen >>

\* ------------------------------- the handlers of the TA, statement by statement
\* hierta.py runs under api.run(threaded=True): each request is handled in a
\* thread of its own, and the threads share registered_facilities and
\* issued_keys without a lock.
\* the JSON body of a request to /revoke_facility
revoke_data(f) ==
    [facility_id |-> f, public_key |-> 0, nonce |-> "", hash_result |-> "",
     attributes |-> NoRegistration.attributes]

\* register_facility up to the call of generate_attribute_key (lines 140-164)
register_facility_check(req) ==
    /\ posted < MaxTARequests
    /\ posted' = posted + 1
    /\ IF ~verify_proof_of_work(req)
       THEN /\ registration' = [status |-> 401, nonce |-> req.nonce,
                                hash_result |-> req.hash_result,
                                attributes |-> req.attributes]
            /\ UNCHANGED ta_handlers
       ELSE IF ~valid_attributes(req.attributes)
       THEN /\ registration' = [status |-> 400, nonce |-> req.nonce,
                                hash_result |-> req.hash_result,
                                attributes |-> req.attributes]
            /\ UNCHANGED ta_handlers
       ELSE /\ ta_handlers' = ta_handlers \cup
                   {[id |-> posted, handler |-> "register_facility",
                     pc |-> 167, req |-> req]}
            /\ UNCHANGED registration
    /\ ServersUnchanged
    /\ UNCHANGED << leader_training_round, registered_facilities, issued_keys,
                    facility_training_round, facility_threads, down,
                    aggregated, facility_sent, averaging, sss, loaded,
                    byzantine, reconstructions, models, modelCount, delivered,
                    distribution, seen >>

\* register_facility, lines 167-173: registered_facilities[facility_id] = {...}
register_facility_record(h) ==
    /\ h.handler = "register_facility" /\ h.pc = 167
    /\ registered_facilities' =
           Put(registered_facilities, h.req.facility_id,
               [status |-> "registered",
                public_key |-> h.req.public_key,
                facility_type |-> h.req.attributes.facility_type,
                region |-> h.req.attributes.region,
                certified |-> h.req.attributes.certified])
    /\ ta_handlers' = (ta_handlers \ {h}) \cup {[h EXCEPT !.pc = 175]}
    /\ ServersUnchanged
    /\ UNCHANGED << leader_training_round, issued_keys,
                    facility_training_round, facility_threads, down,
                    aggregated, facility_sent, averaging, sss, loaded,
                    byzantine, reconstructions, models, modelCount, delivered,
                    distribution, posted, seen, registration >>

\* register_facility, line 175 to the return: issued_keys[facility_id] = key
register_facility_key(h) ==
    /\ h.handler = "register_facility" /\ h.pc = 175
    /\ issued_keys' = issued_keys \cup {h.req.facility_id}
    /\ registration' = [status |-> 200, nonce |-> h.req.nonce,
                        hash_result |-> h.req.hash_result,
                        attributes |-> h.req.attributes]
    /\ distribution' =
           [distribution EXCEPT !.failed = @ \ {h.req.facility_id}]
    /\ ta_handlers' = ta_handlers \ {h}
    /\ ServersUnchanged
    /\ UNCHANGED << leader_training_round, registered_facilities,
                    facility_training_round, facility_threads, down,
                    aggregated, facility_sent, averaging, sss, loaded,
                    byzantine, reconstructions, models, modelCount, delivered,
                    posted, seen >>

\* revoke_facility up to the test of line 279; 404 for an unknown facility
revoke_facility_check(f) ==
    /\ posted < MaxTARequests
    /\ posted' = posted + 1
    /\ ta_handlers' =
           IF f \in DOMAIN registered_facilities
           THEN ta_handlers \cup {[id |-> posted, handler |-> "revoke_facility",
                                   pc |-> 280, req |-> revoke_data(f)]}
           ELSE ta_handlers
    /\ ServersUnchanged
    /\ UNCHANGED << leader_training_round, registered_facilities, issued_keys,
                    facility_training_round, facility_threads, down,
                    aggregated, facility_sent, averaging, sss, loaded,
                    byzantine, reconstructions, models, modelCount, delivered,
                    distribution, seen, registration >>

\* revoke_facility, line 280: registered_facilities[facility_id]['status']
revoke_facility_status(h) ==
    /\ h.handler = "revoke_facility" /\ h.pc = 280
    /\ registered_facilities' =
           [registered_facilities EXCEPT ![h.req.facility_id].status = "revoked"]
    /\ ta_handlers' = (ta_handlers \ {h}) \cup {[h EXCEPT !.pc = 282]}
    /\ ServersUnchanged
    /\ UNCHANGED << leader_training_round, issued_keys,
                    facility_training_round, facility_threads, down,
                    aggregated, facility_sent, averaging, sss, loaded,
                    byzantine, reconstructions, models, modelCount, delivered,
                    distribution, posted, seen, registration >>

\* revoke_facility, lines 282-283 to the return: the key is deleted if there
revoke_facility_key(h) ==
    /\ h.handler = "revoke_facility" /\ h.pc = 282
    /\ issued_keys' = issued_keys \ {h.req.facility_id}
    /\ ta_handlers' = ta_handlers \ {h}
    /\ ServersUnchanged
    /\ UNCHANGED << leader_training_round, registered_facilities,
                    facility_training_round, facility_threads, down,
                    aggregated, facility_sent, averaging, sss, loaded,
                    byzantine, reconstructions, models, modelCount, delivered,
                    distribution, posted, seen, registration >>

\* ----------------------------------------------- uses of ShamirSecretSharing
ProcessesUnchanged ==
    UNCHANGED << vote_records, validated_shares, shares_by_facility,
                 received_shares, fog_training_round, fog_threads,
                 fog_aggregations, leader_training_round, leader_threads,
                 registered_facilities, issued_keys, facility_training_round,
                 facility_threads, down, ta_handlers, aggregated, facility_sent, averaging, registration, byzantine, fwdCount, forwards, cast_votes, vote_messages, accepted,
                 reconstructions, models, modelCount, delivered, distribution,
                 posted, seen, loaded >>

\* the numbers of shares n, the byte strings and the random coefficients
\* the objects are tried on
ShareCounts == {1, 2, 3, prime, prime + 1}
Secrets == {<<>>, <<0>>, <<255>>, <<1, 255>>}
RandomCoefficients == {0, prime - 1}
\* the shares, by index, that are handed to a reconstruction
Points(num_shares) == ({1, 2, 3, num_shares - 1, num_shares}) \cap (1 .. num_shares)
DistinctSeqs(S, len) ==
    {q \in [1 .. len -> S] : \A i, j \in 1 .. len : i # j => q[i] # q[j]}

\* ShamirSecretSharing(threshold, num_shares).split_secret(secret_bytes);
\* of the shares returned, those that are used later are kept
SplitSecret(secret_bytes, coefficients) ==
    /\ sss.pc = "new"
    /\ sss' = [sss EXCEPT
                  !.pc = "split",
                  !.secret = secret_bytes,
                  !.shares = LET shares == split_secret(sss.threshold,
                                               sss.num_shares, secret_bytes,
                                               coefficients)
                             IN [i \in Points(sss.num_shares) |-> shares[i]]]
    /\ ProcessesUnchanged

\* reconstruct_secret on the shares subset[1], subset[2], ... in that order
ReconstructSecret(subset) ==
    /\ sss.pc = "split"
    /\ sss' = [sss EXCEPT
                  !.pc = "reconstructed",
                  !.subset = subset,
                  !.result = reconstruct_secret(sss.threshold,
                                 [j \in 1 .. Len(subset) |-> sss.shares[subset[j]]])]
    /\ ProcessesUnchanged

\* reconstruct_secret_shares on a dict in which facility f holds the
\* formatted shares given[f], all of them of the same split
ReconstructSecretShares(given) ==
    /\ sss.pc = "split"
    /\ sss.secret # <<>>
    /\ LET by_facility ==
               [f \in DOMAIN given |->
                   [j \in 1 .. Len(given[f]) |->
                       FormattedShare(given[f][j], sss.shares[given[f][j]],
                                      sss.threshold, sss.num_shares)]]
       IN sss' = [sss EXCEPT
                     !.pc = "facilities",
                     !.given = given,
                     !.facility_models =
                         sss_reconstruct_secret_shares(by_facility)]
    /\ ProcessesUnchanged

\* hierfognode.reconstruct_secret_shares on a buffer in which facility f
\* holds the formatted shares given[f], all of them of the same split
FogReconstructSecretShares(given) ==
    /\ sss.pc = "split"
    /\ LET by_facility ==
               [f \in DOMAIN given |->
                   [j \in 1 .. Len(given[f]) |->
                       FormattedShare(given[f][j], sss.shares[given[f][j]],
                                      sss.threshold, sss.num_shares)]]
       IN sss' = [sss EXCEPT
                     !.pc = "fog_facilities",
                     !.given = given,
                     !.facility_models =
                         fog_reconstruct_secret_shares(by_facility)]
    /\ ProcessesUnchanged

\* --------------------------------- uses of OptimizedShamirSecretSharing
OptimizedCoefficients == {1, 2 ^ 8 - 1}
Castings == {"same_kind", "unsafe"}

\* OptimizedShamirSecretSharing(threshold, num_shares).split_secret
OptimizedSplitSecret(secret_bytes, coeffs) ==
    /\ sss.pc = "new"
    /\ sss' = [sss EXCEPT
                  !.pc = "optimized_split",
                  !.secret = secret_bytes,
                  !.shares = optimized_split_secret(sss.threshold,
                                 sss.num_shares, secret_bytes, coeffs)]
    /\ ProcessesUnchanged

\* reconstruct_secret on the shares subset[1], subset[2], ... in that order
OptimizedReconstructSecret(subset, casting) ==
    /\ sss.pc = "optimized_split"
    /\ sss' = [sss EXCEPT
                  !.pc = "optimized_reconstructed",
                  !.subset = subset,
                  !.result = optimized_reconstruct_secret(sss.threshold,
                                 [j \in 1 .. Len(subset) |->
                                     sss.shares[subset[j]]], casting)]
    /\ ProcessesUnchanged

\* ---------------------------------------- the averaging of weight vectors
AveragingUnchanged ==
    UNCHANGED << vote_records, validated_shares, shares_by_facility,
                 received_shares, fog_training_round, fog_threads,
                 fog_aggregations, leader_training_round, leader_threads,
                 registered_facilities, issued_keys, facility_training_round,
                 facility_threads, down, ta_handlers, aggregated, facility_sent, byzantine, fwdCount, forwards, cast_votes, vote_messages, accepted,
                 reconstructions, models, modelCount, delivered, distribution,
                 posted, seen, loaded, registration, sss >>

Layers == 1..2
Weights == {0, WeightUnit}

\* the facilities finish training: one model of two layers each
TrainModels(facility_models) ==
    /\ averaging.pc = "none"
    /\ averaging' = [averaging EXCEPT !.pc = "trained",
                                      !.facility_models = facility_models]
    /\ AveragingUnchanged

\* process_aggregation of fog node g, which has reconstructed every facility
FogAverage(g) ==
    /\ averaging.pc = "trained"
    /\ g \notin DOMAIN averaging.fog_models
    /\ averaging' =
           [averaging EXCEPT
               !.fog_models =
                   Put(@, g, fedavg_aggregation_weights(
                                 averaging.facility_models))]
    /\ AveragingUnchanged

\* process_global_aggregation on the partials of all the fog nodes, in the
\* order they were appended to fog_aggregations
GlobalAverage(order) ==
    /\ averaging.pc = "trained"
    /\ DOMAIN averaging.fog_models = Fogs
    /\ averaging' =
           [averaging EXCEPT
               !.pc = "global",
               !.global_model =
                   global_aggregation_weights(
                       [k \in 1..num_fog_nodes |->
                           averaging.fog_models[order[k]]])]
    /\ AveragingUnchanged

\* ------------------------------------------------------------ specifications
\* the reference topology, every process honest
Next ==
    \/ \E f \in Facilities : Register(f)
    \/ \E f \in Facilities : StartRound(f)
    \/ \E f \in Facilities : start_next_round(f)
    \/ \E g \in Fogs : process_aggregation(g)

Spec == Init /\ [][Next]_vars

\* one validator drops every message
InitDrop ==
    /\ InitServers
    /\ \E d \in Validators : down = {d}
    /\ byzantine = {}
    /\ sss = NoSharing

NextDrop ==
    \/ \E f \in Facilities : StartRound(f)
    \/ \E f \in Facilities : start_next_round(f)

SpecDrop == InitDrop /\ [][NextDrop]_vars

\* the committee under the requests of an arbitrary client
NextCommittee ==
    \E v \in Validators, signature \in {"hex", ""} : ClientPost(v, signature)

SpecCommittee == Init /\ [][NextCommittee]_vars

\* validator 2 is Byzantine
InitByz ==
    /\ InitServers
    /\ down = {}
    /\ byzantine = {committee_size - 1}
    /\ sss = NoSharing

NextByz ==
    \E p \in Validators, claimed \in Validators, vote \in {0, 1},
       signature \in {"hex", ""} : ByzVote(p, claimed, vote, signature)

SpecByz == InitByz /\ [][NextByz]_vars

\* fog nodes and leader under shares they can aggregate
NextFog ==
    \/ \E f \in Facilities : PlainPost(f)
    \/ \E g \in Fogs : process_aggregation(g)
    \/ \E g \in Fogs : process_aggregation_clear(g)
    \/ \E outcome \in {"TypeError", "False"} : process_global_aggregation(outcome)
    \/ process_global_aggregation_clear

SpecFog == Init /\ [][NextFog]_vars

\* aggregation rounds and resets together, "training_round += 1" being
\* taken as a load and a store
NextRounds ==
    \/ \E f \in Facilities : PlainBatch(0, f)
    \/ \E g \in Fogs : process_aggregation(g)
    \/ \E g \in Fogs : process_aggregation_load(g)
    \/ \E g \in Fogs : \E r \in DOMAIN loaded.fog[g] :
           process_aggregation_store(g, r)
    \/ \E outcome \in {"TypeError", "False"} : process_global_aggregation(outcome)
    \/ process_global_aggregation_load
    \/ \E r \in DOMAIN loaded.leader : process_global_aggregation_store(r)
    \/ \E g \in Fogs : reset_round(g)
    \/ leader_start_round

SpecRounds == Init /\ [][NextRounds]_vars

\* ShamirSecretSharing objects of every threshold and number of shares
InitShamir ==
    /\ InitServers
    /\ down = {}
    /\ byzantine = {}
    /\ \E k \in 1 .. MaxThreshold, n \in ShareCounts :
          /\ k <= n
          /\ sss = [NoSharing EXCEPT !.pc = "new", !.threshold = k,
                                     !.num_shares = n]

NextShamir ==
    \/ \E secret_bytes \in Secrets :
          \E coefficients \in [1 .. Len(secret_bytes) ->
                                  [1 .. (sss.threshold - 1) -> RandomCoefficients]] :
              SplitSecret(secret_bytes, coefficients)
    \/ \E len \in 0 .. MaxThreshold :
          \E subset \in DistinctSeqs(Points(sss.num_shares), len) :
              ReconstructSecret(subset)
    \/ \E len0, len1 \in 0 .. 2 :
          \E given0 \in DistinctSeqs(Points(sss.num_shares) \cap 1 .. 3, len0),
             given1 \in DistinctSeqs(Points(sss.num_shares) \cap 1 .. 3, len1) :
              ReconstructSecretShares(<<given0, given1>>)

SpecShamir == InitShamir /\ [][NextShamir]_vars

\* the committee under shares altered after signing
NextTampered ==
    \E v \in Validators, payload \in {"sss", "garbage"} : TamperedPost(v, payload)

SpecTampered == Init /\ [][NextTampered]_vars

\* the committee under requests that pass or fail single checks
NextChecked ==
    \E v \in Validators, share_id \in {0, 1, num_fog_nodes, num_fog_nodes + 1},
       size \in {0, 1, FragmentLimit + 1}, signature \in {"hex", ""} :
        CheckedPost(v, share_id, size, signature)

SpecChecked == Init /\ [][NextChecked]_vars

\* the committee under the requests of a client and under resets
NextLedger ==
    \/ \E v \in Validators, signature \in {"hex", ""} : ClientPost(v, signature)
    \/ \E v \in Validators : reset_validator(v)

SpecLedger == Init /\ [][NextLedger]_vars

\* the trusted authority under registrations, revocations and distributions,
\* for three facility ids
NextTA ==
    \/ \E f \in 0..2, facility_type \in {"hospital", "clinic"} :
          register_facility(registration_data(f, facility_type))
    \/ \E f \in 0..2 : revoke_facility(f)
    \/ \E model_data \in JsonValues, unreachable \in SUBSET {0} :
          distribute_global_model(model_data, unreachable)

SpecTA == Init /\ [][NextTA]_vars

\* the trusted authority under any registration request for two facility ids
Registrations ==
    [facility_id : 0..1, public_key : 0..1,
     nonce : {"mined", "unmined"}, hash_result : {"computed", "forged"},
     attributes : [facility_type : {"hospital", "admin"},
                   region : {"north"}, certified : BOOLEAN]]

NextRegistration ==
    \/ \E req \in Registrations : register_facility(req)
    \/ \E f \in 0..1 : revoke_facility(f)
    \/ \E model_data \in JsonValues, unreachable \in SUBSET {0} :
          distribute_global_model(model_data, unreachable)

SpecRegistration == Init /\ [][NextRegistration]_vars

\* the leader under the partials of the fog nodes; its threads are scheduled
\* fairly, no fog node is obliged to send
NextLeader ==
    \/ \E g \in Fogs : PartialPost(g)
    \/ \E outcome \in {"TypeError", "False"} : process_global_aggregation(outcome)
    \/ process_global_aggregation_clear

SpecLeader ==
    /\ Init /\ [][NextLeader]_vars
    /\ WF_vars(\E outcome \in {"TypeError", "False"} :
                   process_global_aggregation(outcome))
    /\ WF_vars(process_global_aggregation_clear)

\* SpecFog with the threads of the fog nodes and of the leader scheduled
\* fairly; no client is obliged to post
SpecFogFair ==
    /\ Init /\ [][NextFog]_vars
    /\ \A g \in Fogs : WF_vars(process_aggregation(g))
    /\ \A g \in Fogs : WF_vars(process_aggregation_clear(g))
    /\ WF_vars(\E outcome \in {"TypeError", "False"} :
                   process_global_aggregation(outcome))
    /\ WF_vars(process_global_aggregation_clear)

\* the fog nodes under shares the committee forwards and requests a client
\* posts to them directly
NextFogClient ==
    \/ \E f \in Facilities : posted < MaxFogPosts /\ PlainPost(f)
    \/ \E g \in Fogs, f \in Facilities, committee_signature \in {"forged", ""} :
          FogPost(g, f, committee_signature)

SpecFogClient == Init /\ [][NextFogClient]_vars

\* the reference configuration: every fog node averages every facility and
\* the leader aggregates the three partials
NextAverage ==
    \/ \E facility_models \in [Facilities -> [Layers -> Weights]] :
          TrainModels(facility_models)
    \/ \E g \in Fogs : FogAverage(g)
    \/ \E order \in DistinctSeqs(Fogs, num_fog_nodes) : GlobalAverage(order)

SpecAverage == Init /\ [][NextAverage]_vars

\* an OptimizedShamirSecretSharing object with k <= n <= 3, a split and a
\* reconstruction
InitOptimized ==
    /\ InitServers
    /\ down = {}
    /\ byzantine = {}
    /\ \E k \in 1 .. MaxThreshold, n \in 1 .. 3 :
          /\ k <= n
          /\ sss = [NoSharing EXCEPT !.pc = "new", !.threshold = k,
                                     !.num_shares = n]

NextOptimized ==
    \/ \E secret_bytes \in Secrets :
          \E coeffs \in [1 .. Len(secret_bytes) ->
                            [1 .. (sss.threshold - 1) -> OptimizedCoefficients]] :
              OptimizedSplitSecret(secret_bytes, coeffs)
    \/ \E len \in 0 .. MaxThreshold, casting \in Castings :
          \E subset \in DistinctSeqs(1 .. sss.num_shares, len) :
              OptimizedReconstructSecret(subset, casting)

SpecOptimized == InitOptimized /\ [][NextOptimized]_vars

\* shares of shamirs_secret_sharing with k <= n <= 3 in the buffer of a fog
\* node
NextFogShamir ==
    \/ \E secret_bytes \in Secrets :
          \E coefficients \in [1 .. Len(secret_bytes) ->
                                  [1 .. (sss.threshold - 1) -> RandomCoefficients]] :
              SplitSecret(secret_bytes, coefficients)
    \/ \E len0, len1 \in 0 .. 3 :
          \E given0 \in DistinctSeqs(1 .. sss.num_shares, len0),
             given1 \in DistinctSeqs(1 .. sss.num_shares, len1) :
              FogReconstructSecretShares(<<given0, given1>>)

SpecFogShamir == InitOptimized /\ [][NextFogShamir]_vars

\* the committee, with at most one validator down, under the requests of a client
InitGossip ==
    /\ InitServers
    /\ \E d \in SUBSET Validators : Cardinality(d) <= 1 /\ down = d
    /\ byzantine = {}
    /\ sss = NoSharing

SpecGossip == InitGossip /\ [][NextCommittee]_vars

\* the committee under requests to /validate_share and vote messages posted
\* to /receive_vote from outside the handlers, with or without a validator
\* that is Byzantine
InitVotes ==
    /\ InitServers
    /\ down = {}
    /\ \E b \in {{}, {committee_size - 1}} : byzantine = b
    /\ sss = NoSharing

NextVotes ==
    \/ \E v \in Validators \ byzantine, signature \in {"hex", ""} :
           ClientPost(v, signature)
    \/ \E p \in Validators, claimed \in Validators, vote \in {0, 1} :
           ByzVote(p, claimed, vote, "hex")

SpecVotes == InitVotes /\ [][NextVotes]_vars

\* the facilities running one round after the other, with any set of
\* validators unreachable
InitRound ==
    /\ InitServers
    /\ \E d \in SUBSET Validators : down = d
    /\ byzantine = {}
    /\ sss = NoSharing

RoundFacilities == 0 .. 1

NextRound ==
    \/ \E f \in RoundFacilities : RoundsInProgress(f) = 0 /\ StartRound(f)
    \/ \E f \in RoundFacilities, failure \in RequestException :
           start_next_round_send(f, failure)
    \/ \E f \in RoundFacilities : start_next_round_load(f)
    \/ \E f \in RoundFacilities : \E r \in DOMAIN loaded.facility[f] :
           start_next_round_store(f, r)

SpecRound == InitRound /\ [][NextRound]_vars

\* the leader under the partials of the fog nodes and /start_round
NextPartials ==
    \/ \E g \in Fogs : PartialPost(g)
    \/ \E outcome \in {"TypeError", "False"} : process_global_aggregation(outcome)
    \/ process_global_aggregation_clear
    \/ leader_start_round

SpecPartials == Init /\ [][NextPartials]_vars

\* the facilities under /start_round and /receive_global_model requests that
\* arrive at any time
NextOverlap ==
    \/ \E f \in RoundFacilities :
           /\ facility_training_round[f] + RoundsInProgress(f) < MaxRounds
           /\ StartRound(f)
    \/ \E f \in RoundFacilities, payload \in GlobalModelPayloads :
           /\ facility_training_round[f] + RoundsInProgress(f) < MaxRounds
           /\ receive_global_model(f, payload)
    \/ \E f \in RoundFacilities, failure \in RequestException :
           start_next_round_send(f, failure)
    \/ \E f \in RoundFacilities : start_next_round_load(f)
    \/ \E f \in RoundFacilities : \E r \in DOMAIN loaded.facility[f] :
           start_next_round_store(f, r)

SpecOverlap == Init /\ [][NextOverlap]_vars

\* a facility under the global models it is sent
NextModels ==
    \/ \E payload \in GlobalModelPayloads :
           /\ facility_training_round[0] + RoundsInProgress(0)
                  <= hier_training_rounds
           /\ receive_global_model(0, payload)
    \/ \E failure \in RequestException : start_next_round_send(0, failure)
    \/ start_next_round_load(0)
    \/ \E r \in DOMAIN loaded.facility[0] : start_next_round_store(0, r)

SpecModels == Init /\ [][NextModels]_vars

\* the trusted authority under registrations and revocations of facility 0
\* that are handled concurrently
ThreadRegistrations ==
    {registration_data(0, facility_type) :
        facility_type \in {"hospital", "admin"}}

NextTAThreads ==
    \/ \E req \in ThreadRegistrations : register_facility_check(req)
    \/ \E h \in ta_handlers : register_facility_record(h)
    \/ \E h \in ta_handlers : register_facility_key(h)
    \/ revoke_facility_check(0)
    \/ \E h \in ta_handlers : revoke_facility_status(h)
    \/ \E h \in ta_handlers : revoke_facility_key(h)

SpecTAThreads == Init /\ [][NextTAThreads]_vars

\* ------------------------------------------------------------------ claims
\* no thread of a facility, a fog node or the leader is started and not ended
NoThreadPending ==
    /\ \A f \in Facilities : facility_threads[f] = 0
    /\ \A g \in Fogs : fog_threads[g].start = 0 /\ fog_threads[g].sent = 0
    /\ leader_threads.start = 0 /\ leader_threads.sent = 0

\* C1: for every share_uid at most one forward (POST to /receive_share of a
\* fog node) is ever made by the validators of the committee
C1_AtMostOneForward ==
    \A uid \in DOMAIN fwdCount : fwdCount[uid] <= 1

\* C2: whenever a validator forwards a share, its vote ledger holds approve
\* verdicts for the share_uid from at least consensus_threshold validator ids
\* and the signature of the forwarded share passes verification
C2_ForwardedHasQuorumAndSignature ==
    \A e \in forwards :
        /\ e.approvals >= consensus_threshold
        /\ verify_facility_signature(e.req.signature)

\* C3: with every process honest and every facility registered at the TA,
\* once every facility has run a round and no thread is left, the leader has
\* produced a global model and the TA has delivered it to all facilities
C3_RoundDeliversGlobalModel ==
    ( /\ DOMAIN registered_facilities = Facilities
      /\ \A f \in Facilities : facility_training_round[f] >= 1
      /\ NoThreadPending )
    => (models # {} /\ delivered = Facilities)

\* C4: for every round the leader produces at most one global model,
\* whatever the interleaving of receive_fog_aggregation and the threads
C4_OneGlobalModelPerRound ==
    \A r \in DOMAIN modelCount : modelCount[r] <= 1

\* C5: posting again a signed share that was admitted and forwarded makes no
\* further forward to a fog node
C5_ReplayMakesNoForward ==
    [][ \A s \in DOMAIN seen :
          ( /\ seen'[s] = seen[s] + 1
            /\ Get(fwdCount, s.share_uid, 0) >= 1
            /\ \E e \in forwards : e.req = s )
          => fwdCount' = fwdCount ]_vars

\* C6: with one Byzantine validator sending arbitrary vote messages, an
\* honest validator never forwards a share that fails the admission checks
C6_InvalidShareNeverForwarded ==
    \A e \in forwards : e.by \notin byzantine => Verdict(e.req) = 1

\* C7: with one validator dropping every message, every valid share a
\* facility has submitted in a finished round was forwarded to its fog node
C7_ValidShareForwarded ==
    \A s \in DOMAIN seen :
        Verdict(s) = 1 => Get(fwdCount, s.share_uid, 0) >= 1

\* C8: a request of a round below the round counter of the receiver changes
\* no state: no fog node buffers a share of a round below its training_round
\* and the leader buffers no partial of a round below its training_round
C8_StaleRequestNotBuffered ==
    /\ \A g \in Fogs : \A fid \in DOMAIN shares_by_facility[g] :
          \A k \in 1 .. Len(shares_by_facility[g][fid]) :
              shares_by_facility[g][fid][k].round >= fog_training_round[g]
    /\ \A k \in 1 .. Len(fog_aggregations) :
          fog_aggregations[k].round >= leader_training_round

\* C9: whenever a fog node reconstructs a facility, its buffer for the
\* facility holds shares of at least secret_threshold distinct share_ids
C9_ReconstructionHasThreshold ==
    \A rc \in reconstructions :
        Cardinality(rc.share_ids) >= secret_threshold

\* C10: every global aggregation is over partials of pairwise distinct fog
\* nodes, at least num_fog_nodes - max_byzantine_nodes of them
C10_AggregatesDistinctFogNodes ==
    \A m \in models :
        LET ids == {m.parts[k] : k \in 1 .. Len(m.parts)}
        IN /\ Cardinality(ids) = Len(m.parts)
           /\ Cardinality(ids) >= num_fog_nodes - max_byzantine_nodes

C12_RoundCounterNeverDecreases ==
    [][ /\ \A f \in Facilities :
              facility_training_round'[f] >= facility_training_round[f]
        /\ \A g \in Fogs : fog_training_round'[g] >= fog_training_round[g]
        /\ leader_training_round' >= leader_training_round ]_vars

\* C13: reconstruct_secret on any k of the n shares of split_secret(S), in
\* any order and whatever the coefficients drawn, returns S.
C13_AnyKSharesReconstruct ==
    (sss.pc = "reconstructed" /\ Len(sss.subset) = sss.threshold)
        => (~sss.result.raised /\ sss.result.bytes = sss.secret)

\* C13, for at most 257 shares: reconstruct_secret on any k of the n <= 257
\* shares of split_secret(S), in any order and whatever the coefficients
\* drawn, returns S.
C13_AnyKSharesReconstructInField ==
    (sss.pc = "reconstructed" /\ Len(sss.subset) = sss.threshold
        /\ sss.num_shares <= 257)
        => (~sss.result.raised /\ sss.result.bytes = sss.secret)

\* three of 257 shares, the last one among them and not in ascending order,
\* gave back a secret of two bytes
C13_Witness ==
    /\ sss.pc = "reconstructed"
    /\ sss.num_shares = 257
    /\ sss.threshold = 3
    /\ sss.subset = <<257, 1, 256>>
    /\ sss.secret = <<1, 255>>
    /\ sss.result.bytes = <<1, 255>>

\* C14: reconstruct_secret raises on fewer than k shares, and
\* reconstruct_secret_shares leaves out a facility with fewer than k shares
\* while the facilities with k shares (of distinct points of the field) are
\* reconstructed.
C14_TooFewSharesFail ==
    /\ (sss.pc = "reconstructed" /\ Len(sss.subset) < sss.threshold)
           => sss.result.raised
    /\ sss.pc = "facilities" =>
           \A f \in DOMAIN sss.given :
               /\ Len(sss.given[f]) < sss.threshold
                      => f \notin DOMAIN sss.facility_models
               /\ (Len(sss.given[f]) >= sss.threshold /\ sss.num_shares <= prime)
                      => /\ f \in DOMAIN sss.facility_models
                         /\ sss.facility_models[f] = sss.secret

\* one facility with too few shares is left out and the other one is
\* reconstructed
C14_Witness ==
    /\ sss.pc = "facilities"
    /\ sss.threshold = 2
    /\ Len(sss.given[1]) = 1
    /\ Len(sss.given[2]) = 2
    /\ DOMAIN sss.facility_models = {2}

\* reconstruct_secret was called with k - 1 shares and raised
C14_WitnessRaise ==
    /\ sss.pc = "reconstructed"
    /\ Len(sss.subset) = sss.threshold - 1
    /\ sss.result.raised

\* C15: a share whose payload was altered after the facility signed it is
\* rejected by every honest validator and never forwarded to a fog node.
C15_AlteredShareNeverForwarded ==
    /\ \A fw \in forwards : fw.req.kind = fw.req.signed_payload
    /\ \A req \in DOMAIN seen : \A v \in Validators :
           ( /\ req.kind # req.signed_payload
             /\ req.share_uid \in DOMAIN vote_records[v]
             /\ v \in DOMAIN vote_records[v][req.share_uid] )
           => vote_records[v][req.share_uid][v] = 0

\* C16: a share whose issuer has no proof-of-work registration with the TA
\* is never forwarded to a fog node.
C16_UnregisteredIssuerNeverForwarded ==
    [][ \A fw \in forwards' \ forwards :
            fw.req.facility_id \in DOMAIN registered_facilities ]_vars

\* the checks the verdict has to rest on
AllChecksPass(req) ==
    /\ req.signature # ""
    /\ req.threshold = secret_threshold
    /\ req.total_shares = num_fog_nodes
    /\ req.size \in 1 .. FragmentLimit
    /\ req.share_id \in 1 .. num_fog_nodes

\* C17: the verdict of a validator on a share is approve exactly when the
\* signature check passes, k and n are the configured ones, the payload
\* length is in 1..L_max and share_id is in 1..n.
C17_ApproveIffAllChecks ==
    \A req \in DOMAIN seen : \A v \in Validators :
        ( /\ req.share_uid \in DOMAIN vote_records[v]
          /\ v \in DOMAIN vote_records[v][req.share_uid] )
        => (vote_records[v][req.share_uid][v] = 1 <=> AllChecksPass(req))

\* the status of a share in the ledger of one validator
RejectedIn(ledger, uid) ==
    /\ uid \in DOMAIN ledger
    /\ Cardinality({x \in DOMAIN ledger[uid] : ledger[uid][x] = 0})
           >= committee_size - consensus_threshold + 1

\* the step ends the round of validator v
RoundEnd(v) == vote_records'[v] = EmptyDict /\ validated_shares'[v] = EmptyDict

\* C18: at a validator a share, once REJECTED (rejections >= V - Q + 1),
\* stays REJECTED and is not forwarded later; once ADMITTED it is not
\* admitted again; and its ledger entry is kept until the round ends.
C18_LedgerStatusIsTerminal ==
    [][ \A v \in Validators : ~RoundEnd(v) =>
           /\ \A uid \in DOMAIN vote_records[v] :
                  /\ uid \in DOMAIN vote_records'[v]
                  /\ RejectedIn(vote_records[v], uid) =>
                         /\ RejectedIn(vote_records'[v], uid)
                         /\ Get(validated_shares'[v], uid, 0)
                                = Get(validated_shares[v], uid, 0)
           /\ \A uid \in DOMAIN validated_shares[v] :
                  /\ uid \in DOMAIN validated_shares'[v]
                  /\ validated_shares'[v][uid] = validated_shares[v][uid] ]_vars

\* C19: within a round, a verdict recorded for (share_uid, validator_id) is
\* not replaced by a later one.
C19_VerdictRecordedOnce ==
    [][ \A v \in Validators : ~RoundEnd(v) =>
           \A uid \in DOMAIN vote_records[v] \cap DOMAIN vote_records'[v] :
               \A x \in DOMAIN vote_records[v][uid]
                           \cap DOMAIN vote_records'[v][uid] :
                   vote_records'[v][uid][x] = vote_records[v][uid][x] ]_vars

\* C20: /distribute_global_model posts the model to every registered
\* facility whose attributes satisfy the access policy and to no facility
\* that is unregistered or whose attributes do not satisfy it
C20_DeliversToAuthorized ==
    distribution.status # 0 =>
        /\ (distribution.authorized \ distribution.revoked)
               \subseteq distribution.recipients
        /\ distribution.recipients \subseteq distribution.authorized

\* the step stores a record for f with status registered, or issues f a key
RecordCreated(f) ==
    \/ /\ f \in DOMAIN registered_facilities'
       /\ registered_facilities'[f].status = "registered"
       /\ \/ f \notin DOMAIN registered_facilities
          \/ registered_facilities[f] # registered_facilities'[f]
    \/ f \in issued_keys' \ issued_keys

\* every value of the attributes is in the attribute universe
EveryAttributeInUniverse(attributes) ==
    \A i \in DOMAIN AttributeValues(attributes) :
        /\ AttributeValues(attributes)[i].str
        /\ AttributeValues(attributes)[i].value \in attribute_universe

\* every value of the attributes that is a string is in the universe
EveryStringAttributeInUniverse(attributes) ==
    \A i \in DOMAIN AttributeValues(attributes) :
        AttributeValues(attributes)[i].str
            => AttributeValues(attributes)[i].value \in attribute_universe

\* C21, as stated: a record is created and a key issued only when the proof
\* of work verifies and every attribute is in the attribute universe, and a
\* request that is refused leaves registered_facilities and issued_keys as
\* they were
C21_RegistersOnlyChecked ==
    [][ /\ \A f \in Facilities :
              RecordCreated(f)
              => /\ registration'.status = 200
                 /\ registration'.nonce = "mined"
                 /\ registration'.hash_result = "computed"
                 /\ EveryAttributeInUniverse(registration'.attributes)
        /\ ( registration' # registration
             /\ registration'.status \in {400, 401} )
              => UNCHANGED << registered_facilities, issued_keys >>
      ]_vars

\* C21, amended: a record is created and a key issued only when the proof
\* of work verifies and every string-valued attribute is in the attribute
\* universe; a request failing either check is answered with an error and
\* leaves registered_facilities and issued_keys as they were
C21_RegistersOnlyCheckedStrings ==
    [][ /\ \A f \in Facilities :
              RecordCreated(f)
              => /\ registration'.status = 200
                 /\ registration'.nonce = "mined"
                 /\ registration'.hash_result = "computed"
                 /\ EveryStringAttributeInUniverse(registration'.attributes)
        /\ ( /\ registration'.status # 0
             /\ \/ registration'.nonce # "mined"
                \/ registration'.hash_result # "computed"
                \/ ~EveryStringAttributeInUniverse(registration'.attributes) )
              => registration'.status \in {400, 401}
        /\ ( registration' # registration
             /\ registration'.status \in {400, 401} )
              => UNCHANGED << registered_facilities, issued_keys >>
      ]_vars

\* a registration was refused for its attributes after another was accepted
C21_Witness ==
    /\ registration.status = 400
    /\ \E f \in DOMAIN registered_facilities : f \in issued_keys

\* C22: once a record exists for a facility id, its public_key and its
\* attributes never change; only its status does
C22_RecordImmutable ==
    [][ \A f \in DOMAIN registered_facilities :
           /\ f \in DOMAIN registered_facilities'
           /\ registered_facilities'[f].public_key
                  = registered_facilities[f].public_key
           /\ registered_facilities'[f].facility_type
                  = registered_facilities[f].facility_type
           /\ registered_facilities'[f].region
                  = registered_facilities[f].region
           /\ registered_facilities'[f].certified
                  = registered_facilities[f].certified ]_vars

\* the leader holds the partials of exactly two fog nodes, one of each
TwoPartialsReceived ==
    /\ Len(fog_aggregations) = num_fog_nodes - max_byzantine_nodes
    /\ Cardinality({fog_aggregations[k].fog_node_id :
                       k \in DOMAIN fog_aggregations})
           = num_fog_nodes - max_byzantine_nodes

\* C23: when the leader holds the partials of two of the three fog nodes and
\* nothing more is delivered to it, it eventually aggregates the two and a
\* global model exists for the round
C23_LeaderAggregatesTwoPartials ==
    TwoPartialsReceived
        ~> ( \/ Len(fog_aggregations) > num_fog_nodes - max_byzantine_nodes
             \/ leader_training_round \in DOMAIN modelCount )

\* fog node 0 holds the shares it waits for of every facility but the last,
\* and none of the last
OneFacilityMissing ==
    /\ \A fid \in Facilities \ {number_of_facilities - 1} :
          /\ fid \in DOMAIN shares_by_facility[0]
          /\ Len(shares_by_facility[0][fid]) >= secret_num_shares_computed
    /\ (number_of_facilities - 1) \notin DOMAIN shares_by_facility[0]

\* C24: when the shares of every facility but one have reached a fog node
\* and those of the last never arrive, the fog node eventually aggregates
\* the facilities it has and sends a partial to the leader
C24_FogAggregatesRemainder ==
    OneFacilityMissing
        ~> ( \/ (number_of_facilities - 1) \in DOMAIN shares_by_facility[0]
             \/ fog_threads[0].sent > 0
             \/ \E k \in DOMAIN fog_aggregations :
                   fog_aggregations[k].fog_node_id = 0 )

\* C25: every share in the buffer of a fog node was admitted by the
\* committee with at least consensus_threshold approvals and carries the
\* committee's signature; a request to /receive_share with a missing or a
\* forged committee signature is not buffered
C25_BufferedWasAdmitted ==
    \A g \in Fogs : \A fid \in DOMAIN shares_by_facility[g] :
        \A k \in 1 .. Len(shares_by_facility[g][fid]) :
            /\ shares_by_facility[g][fid][k].csig = "sha256"
            /\ \E e \in forwards :
                  /\ e.uid = shares_by_facility[g][fid][k].uid
                  /\ e.approvals >= consensus_threshold

\* C26: in the reference configuration the global model is, layer by layer,
\* the sum of the partials of the G fog nodes divided by G, which is the
\* uniform average of the weight vectors of the facilities
C26_GlobalModelIsAverage ==
    averaging.pc = "global" =>
        \A layer_idx \in Layers :
            /\ averaging.global_model[layer_idx] * num_fog_nodes
                   = SumLayer(averaging.fog_models, Fogs, layer_idx)
            /\ averaging.global_model[layer_idx] * number_of_facilities
                   = SumLayer(averaging.facility_models, Facilities,
                              layer_idx)

\* C27: a POST that fails in transport is attempted again before it is given
\* up: a share whose validator drops every message has been posted to it at
\* least twice once the facility's round is over
C27_FailedPostRetried ==
    \A s \in DOMAIN seen :
        ((s.share_id - 1) % committee_size) \in down => seen[s] >= 2

C29_OnePartialPerRound ==
    \A j, k \in DOMAIN fog_aggregations :
        ( /\ fog_aggregations[j].fog_node_id = fog_aggregations[k].fog_node_id
          /\ fog_aggregations[j].round = fog_aggregations[k].round )
            => j = k

\* C30: OptimizedShamirSecretSharing.reconstruct_secret on any k of the n
\* shares of split_secret(S) returns S
C30_OptimizedRoundTrip ==
    ( /\ sss.pc = "optimized_reconstructed"
      /\ Len(sss.subset) = sss.threshold )
        => (~sss.result.raised /\ sss.result.bytes = sss.secret)

\* C31: for a facility whose shares of shamirs_secret_sharing are in the
\* buffer of a fog node, at least k of them, the reconstruction of the fog
\* node returns the byte string the facility split
C31_FogReconstructsSecret ==
    sss.pc = "fog_facilities" =>
        \A f \in DOMAIN sss.given :
            Len(sss.given[f]) >= sss.threshold
                => /\ f \in DOMAIN sss.facility_models
                   /\ sss.facility_models[f].type = "bytes"
                   /\ sss.facility_models[f].value = sss.secret

\* the verdicts validator v has cast on uid in the handlers hs
RECURSIVE SumOver(_, _)
SumOver(d, keys) ==
    IF keys = {} THEN 0
    ELSE LET k == CHOOSE k \in keys : TRUE
         IN d[k] + SumOver(d, keys \ {k})

VerdictsCast(v, uid, hs) ==
    SumOver(cast_votes, {k \in DOMAIN cast_votes :
                            /\ k.validator_id = v
                            /\ k.share_id = uid
                            /\ k.handler \in hs})

PostsTo(v, uid, p) ==
    Get(vote_messages, [share_id |-> uid, validator_id |-> v, to |-> p], 0)

SharesVotedOn == {k.share_id : k \in DOMAIN cast_votes}

\* C32 as claimed: every verdict a validator casts on a share, in validate_share
\* or in receive_vote, is posted to every other validator
C32_EveryVerdictGossiped ==
    \A uid \in SharesVotedOn : \A v \in Validators : \A p \in Validators \ {v} :
        PostsTo(v, uid, p) = VerdictsCast(v, uid, {"validate_share", "receive_vote"})

\* C32: every verdict a validator casts in validate_share is posted once to
\* every other validator, whether or not that validator answers
C32_DirectVerdictGossiped ==
    \A uid \in SharesVotedOn : \A v \in Validators : \A p \in Validators \ {v} :
        PostsTo(v, uid, p) = VerdictsCast(v, uid, {"validate_share"})

C32_Witness ==
    \E uid \in SharesVotedOn : \E v \in Validators, p \in down :
        /\ p # v
        /\ VerdictsCast(v, uid, {"validate_share"}) = 2
        /\ PostsTo(v, uid, p) = 2
        /\ \E q \in Validators : VerdictsCast(q, uid, {"receive_vote"}) > 0

\* the requests to /validate_share for uid the committee has handled
Submissions(uid) ==
    SumOver(cast_votes, {k \in DOMAIN cast_votes :
                            k.share_id = uid /\ k.handler = "validate_share"})

\* the vote messages posted for uid
VoteTraffic(uid) ==
    SumOver(vote_messages, {k \in DOMAIN vote_messages : k.share_id = uid})

\* C33: the vote messages posted for a share_uid number at most
\* committee_size - 1 per submission of the share; a vote message that is
\* handled, whoever sent it, adds none
C33_BoundedVoteTraffic ==
    \A uid \in SharesVotedOn :
        VoteTraffic(uid) <= (committee_size - 1) * Submissions(uid)

C33_Witness ==
    \E uid \in SharesVotedOn :
        /\ Submissions(uid) = 1
        /\ VoteTraffic(uid) = committee_size - 1
        /\ SumOver(cast_votes, {k \in DOMAIN cast_votes :
                                  k.share_id = uid /\ k.handler = "receive_vote"}) >= 3

\* every facility id in 0..F-1 has at least n shares in the buffer of fog node g
FullBuffer(buffers, g) ==
    \A fid \in 0..(number_of_facilities - 1) :
        /\ fid \in DOMAIN buffers[g]
        /\ Len(buffers[g][fid]) >= secret_num_shares_computed

\* C34: a step in which a fog node starts an aggregation thread ends with at
\* least n shares of every facility 0..F-1 in that node's buffer; with fewer
\* for any facility no thread is started
C34_LaunchOnlyWhenAllReady ==
    [][\A g \in Fogs :
          fog_threads'[g].start > fog_threads[g].start
              => FullBuffer(shares_by_facility', g)]_vars

C34_Witness ==
    \E g \in Fogs :
        /\ fog_threads[g].start = 1
        /\ FullBuffer(shares_by_facility, g)
        /\ received_shares[g] >= number_of_facilities * secret_num_shares_computed

C36_CounterFollowsHandOff ==
    [][leader_training_round' # leader_training_round
          => /\ leader_training_round' = leader_training_round + 1
             /\ \E m \in models : m.round = leader_training_round
             /\ distribution.status = 200]_vars

\* C37: no accepted partial is summed into two global models, and a step
\* that clears fog_aggregations removes only partials that have been summed
\* into one
C37_PartialAggregatedOnce ==
    [][/\ \A n \in DOMAIN aggregated' : aggregated'[n] <= 1
       /\ (fog_aggregations # <<>> /\ fog_aggregations' = <<>>)
             => \A n \in Buffered : Get(aggregated, n, 0) >= 1]_vars

\* C38: a facility never has two threads of start_next_round in progress, and
\* never posts the share of an index twice under one round number
C38_OneRoundInProgress ==
    \A f \in Facilities :
        /\ RoundsInProgress(f) <= 1
        /\ \A s \in DOMAIN seen : s.facility_id = f => seen[s] <= 1

\* C40: a facility whose training_round has reached hier_training_rounds
\* starts no further thread of start_next_round
C40_NoRoundBeyondConfigured ==
    [][\A f \in Facilities :
          facility_training_round[f] >= hier_training_rounds
              => facility_threads'[f] <= facility_threads[f]]_vars

\* C39: whenever no handler of the trusted authority is running, the
\* facilities in issued_keys are those whose record has status 'registered'
C39_KeyIffRegistered ==
    ta_handlers = {} =>
        \A f \in Facilities :
            f \in issued_keys
                <=> /\ f \in DOMAIN registered_facilities
                    /\ registered_facilities[f].status = "registered"
====
